---- MODULE Spec2Model ----
(***************************************************************************)
(* A model of the pinkfrog-cms tool server (src/mcp.js): the frontmatter   *)
(* codec, the content store, the decoration store, the sitemap builder and *)
(* the output manager, over an explicit model of the file tree.            *)
(*                                                                         *)
(* Text is a sequence of one-character strings, so that trimming,          *)
(* splitting and pattern matching are computed character by character.     *)
(* A path is a sequence of segments below CMS_DIR; a segment is text.      *)
(***************************************************************************)
EXTENDS Integers, Sequences, FiniteSets, TLC

VARIABLES
    fs,     \* the file tree below CMS_DIR: path -> [kind, data]
    last,   \* the most recent tool call: [op, args, res]
    prev,   \* the tool call before it, in brief
    fm,     \* the frontmatter codec applied to free-standing inputs
    ed,     \* the running empty_dist call: [pc, stack, ext]
    pre,    \* the file tree as it was when the most recent call started
    host    \* the host process: [alive, ports, failing]

vars == <<fs, last, prev, fm, ed, pre, host>>

----------------------------------------------------------------------------
(* Text primitives of JavaScript strings                                   *)

NL == "\n"
QUOTE == "\""

\* String.prototype.trim strips white space and line terminators.
IsSpace(c) == c \in {" ", "\n", "\t", "\r"}

\* `.` of a regular expression without the s flag: anything but a line terminator.
IsDot(c) == c \notin {"\n", "\r"}

MinOf(S) == CHOOSE x \in S : \A y \in S : x <= y
MaxOf(S) == CHOOSE x \in S : \A y \in S : x >= y

Trim(s) ==
    LET keep == {i \in 1..Len(s) : ~IsSpace(s[i])}
    IN  IF keep = {} THEN <<>> ELSE SubSeq(s, MinOf(keep), MaxOf(keep))

StartsWith(s, p) == Len(s) >= Len(p) /\ SubSeq(s, 1, Len(p)) = p

EndsWith(s, p) == Len(s) >= Len(p) /\ SubSeq(s, Len(s) - Len(p) + 1, Len(s)) = p

\* The first index >= from at which pat occurs in s, 0 when there is none.
IndexFrom(s, pat, from) ==
    LET hits == {i \in from..(Len(s) - Len(pat) + 1) : SubSeq(s, i, i + Len(pat) - 1) = pat}
    IN  IF hits = {} THEN 0 ELSE MinOf(hits)

Includes(s, c) == \E i \in 1..Len(s) : s[i] = c

\* s.split(c) for a one-character separator: always at least one part.
RECURSIVE Split(_, _)
Split(s, c) ==
    LET i == IndexFrom(s, <<c>>, 1)
    IN  IF i = 0 THEN <<s>>
        ELSE <<SubSeq(s, 1, i - 1)>> \o Split(SubSeq(s, i + 1, Len(s)), c)

\* parts.join(c)
RECURSIVE Join(_, _)
Join(parts, c) ==
    IF parts = <<>> THEN <<>>
    ELSE IF Len(parts) = 1 THEN parts[1]
    ELSE parts[1] \o <<c>> \o Join(Tail(parts), c)

\* value.replace(/^"(.*)"$/, '$1')
StripQuotes(v) ==
    IF /\ Len(v) >= 2
       /\ v[1] = QUOTE
       /\ v[Len(v)] = QUOTE
       /\ \A i \in 2..(Len(v) - 1) : IsDot(v[i])
    THEN SubSeq(v, 2, Len(v) - 1)
    ELSE v

----------------------------------------------------------------------------
(* Frontmatter codec                                                       *)

Dashes == <<"-", "-", "-">>
TitleKey == <<"t", "i", "t", "l", "e">>
AliasKey == <<"a", "l", "i", "a", "s">>

\* create_page: `---\ntitle: ${title}\n---\n\n${copy}`
Serialize(title, copy) ==
    Dashes \o <<NL>> \o TitleKey \o <<":", " ">> \o title \o <<NL>>
        \o Dashes \o <<NL, NL>> \o copy

\* A page text with the given frontmatter block and body.
PageOf(block, body) == Dashes \o <<NL>> \o block \o <<NL>> \o Dashes \o <<NL>> \o body

\* text.match(/^---\n([\s\S]*?)\n---\n([\s\S]*)$/): the block ends at the
\* first "\n---\n" at or after the end of the opening "---\n".
FrontmatterMatch(text) ==
    LET close == IndexFrom(text, <<NL>> \o Dashes \o <<NL>>, 5)
    IN  IF StartsWith(text, Dashes \o <<NL>>) /\ close # 0
        THEN [matched |-> TRUE,
              block   |-> SubSeq(text, 5, close - 1),
              rest    |-> SubSeq(text, close + 5, Len(text))]
        ELSE [matched |-> FALSE, block |-> <<>>, rest |-> <<>>]

LineKeyUntrimmed(line) == Split(line, ":")[1]

\* const [key, ...valueParts] = line.split(':'); key.trim()
LineKey(line) == Trim(Split(line, ":")[1])

LineValueSecondPart(line) == StripQuotes(Trim(Split(line, ":")[2]))

\* valueParts.join(':').trim(), then the quote-stripping replace
LineValue(line) == StripQuotes(Trim(Join(Tail(Split(line, ":")), ":")))

\* attributes[key] = value, for each line in order: a later line overwrites
RECURSIVE ParseLines(_, _)
ParseLines(lines, attrs) ==
    IF lines = <<>> THEN attrs
    ELSE LET line == Head(lines)
             k == LineKey(line)
             next == IF Includes(line, ":")
                     THEN [x \in (DOMAIN attrs) \cup {k} |->
                              IF x = k THEN LineValue(line) ELSE attrs[x]]
                     ELSE attrs
         IN  ParseLines(Tail(lines), next)

NoAttributes == [x \in {} |-> <<>>]

\* get_page: attributes and content of a page text
ParsePage(text) ==
    LET m == FrontmatterMatch(text)
    IN  IF m.matched
        THEN [attributes |-> ParseLines(Split(m.block, NL), NoAttributes),
              content    |-> Trim(m.rest)]
        ELSE [attributes |-> NoAttributes, content |-> text]

----------------------------------------------------------------------------
(* The file tree: fs maps each existing path to [kind, data].  The domain  *)
(* is closed under parents and every parent is a directory.                *)

SegSrc == <<"s", "r", "c">>
SegContent == <<"c", "o", "n", "t", "e", "n", "t">>
SegDefault == <<"d", "e", "f", "a", "u", "l", "t">>
SegDist == <<"d", "i", "s", "t">>
ExtMd == <<".", "m", "d">>
ExtHtml == <<".", "h", "t", "m", "l">>

\* const CMS_DIR = process.env.CMS_DIR || process.cwd(): the root of the tree
CMS_DIR == <<>>
\* const PAGES_DIR = path.join(CMS_DIR, 'src')
PAGES_DIR == CMS_DIR \o <<SegSrc>>

DirNode == [kind |-> "dir", data |-> <<>>]
FileNode(text) == [kind |-> "file", data |-> text]
\* a symbolic link; data holds the path it points to
LinkNode(target) == [kind |-> "link", data |-> target]

Parent(p) == SubSeq(p, 1, Len(p) - 1)
IsPrefix(p, q) == Len(p) <= Len(q) /\ SubSeq(q, 1, Len(p)) = p
Prefixes(p) == {SubSeq(p, 1, k) : k \in 0..Len(p)}

\* path.join: split on '/', drop '' and '.', let '..' remove a segment
RECURSIVE Normalize(_, _)
Normalize(acc, segs) ==
    IF segs = <<>> THEN acc
    ELSE LET s == Head(segs)
             up == <<".", ".">>
             acc2 == IF s = <<>> \/ s = <<".">> THEN acc
                     ELSE IF s = up /\ acc # <<>> /\ acc[Len(acc)] # up
                          THEN Parent(acc)
                          ELSE Append(acc, s)
         IN  Normalize(acc2, Tail(segs))

PathJoin(base, text) == Normalize(base, Split(text, "/"))

\* path.dirname of a joined path
Dirname(p) == Parent(p)

\* fs.access(p) resolves
Exists(f, p) == p \in DOMAIN f
IsDir(f, p) == p \in DOMAIN f /\ f[p].kind = "dir"
IsFile(f, p) == p \in DOMAIN f /\ f[p].kind = "file"

\* the names fs.readdir(p) yields, in no particular order
Entries(f, p) == {q[Len(q)] : q \in {r \in DOMAIN f : Len(r) = Len(p) + 1 /\ IsPrefix(p, r)}}
CanReaddir(f, p) == IsDir(f, p)

\* every order in which readdir may list a set of names
Orderings(S) ==
    {o \in [1..Cardinality(S) -> S] : \A i, j \in 1..Cardinality(S) : o[i] = o[j] => i = j}

\* what lies below p
Below(f, p) == {q \in DOMAIN f : Len(q) > Len(p) /\ IsPrefix(p, q)}

\* fs.readFile(p)
CanRead(f, p) == IsFile(f, p)

\* fs.mkdir(p, { recursive: true }): fails on a file at p or above it
CanMkdirP(f, p) == \A q \in Prefixes(p) : q \in DOMAIN f => f[q].kind = "dir"
MkdirP(f, p) == [q \in (DOMAIN f) \cup Prefixes(p) |-> IF q \in DOMAIN f THEN f[q] ELSE DirNode]

WriteFileAppend(f, p, text) ==
    [q \in (DOMAIN f) \cup {p} |->
        IF q = p THEN FileNode((IF IsFile(f, p) THEN f[p].data ELSE <<>>) \o text) ELSE f[q]]

\* fs.writeFile(p, text): the parent must be a directory, p must not be one
CanWrite(f, p) == p # <<>> /\ IsDir(f, Parent(p)) /\ ~IsDir(f, p)
WriteFile(f, p, text) == [q \in (DOMAIN f) \cup {p} |-> IF q = p THEN FileNode(text) ELSE f[q]]

\* The path a call that follows symbolic links works on: the first link on
\* the way is replaced by what it points to.
IsLink(f, p) == p \in DOMAIN f /\ f[p].kind = "link"
Real(f, p) ==
    LET links == {k \in 1..Len(p) : IsLink(f, SubSeq(p, 1, k))}
    IN  IF links = {} THEN p
        ELSE f[SubSeq(p, 1, MinOf(links))].data \o SubSeq(p, MinOf(links) + 1, Len(p))

\* unlink and rmdir follow the links above an entry, not the entry itself
RealEntry(f, p) == IF p = <<>> THEN p ELSE Real(f, Parent(p)) \o <<p[Len(p)]>>

\* fs.unlink(p), of a file or of a link, and fs.rmdir(p)
CanUnlink(f, p) == IsFile(f, p) \/ IsLink(f, p)
CanRmdir(f, p) == IsDir(f, p) /\ Below(f, p) = {} /\ p # <<>>
Remove(f, p) == [q \in (DOMAIN f) \ {p} |-> f[q]]

\* A tree built from a set of <<path, node>> pairs with distinct paths.
TreeOf(pairs) == [p \in {pr[1] : pr \in pairs} |-> (CHOOSE pr \in pairs : pr[1] = p)[2]]

WellFormed(f) ==
    /\ IsDir(f, <<>>)
    /\ \A p \in DOMAIN f : p # <<>> => IsDir(f, Parent(p))

----------------------------------------------------------------------------
(* Tool arguments and results                                              *)

\* An optional string argument: absent (undefined) or given.
Absent == [given |-> FALSE, val |-> <<>>]
Given(text) == [given |-> TRUE, val |-> text]

\* args.dataSet || 'default'  (list_pages, create_page)
DataSetOr(arg) == IF arg.given /\ arg.val # <<>> THEN arg.val ELSE SegDefault

\* const { dataSet = 'default' } = args  (get_page, xml_sitemap): the
\* default replaces undefined only
DataSetDefault(arg) == IF arg.given THEN arg.val ELSE SegDefault

ContentDir(ds) == PathJoin(PAGES_DIR \o <<SegContent>>, ds)

\* The outer catch of the CallTool handler: `Error processing request: ...`
Thrown(msg) == [thrown |-> TRUE, message |-> msg]

\* The messages of the validation errors, as runs of literal text.
MissingCreatePage ==
    <<"Missing required arguments: ", "fileName", ", ", "title", ", and ", "copy",
      " are required.">>
MissingArgumentUnnamed(name) == <<"Missing required argument">>
MissingArgument(name) == <<"Missing required argument: ", name>>

IsMd(name) == EndsWith(name, ExtMd)

FilterMdKeepAll(listing) == listing

\* files.filter(file => file.endsWith('.md'))
RECURSIVE FilterMd(_)
FilterMd(listing) ==
    IF listing = <<>> THEN <<>>
    ELSE IF IsMd(Head(listing)) THEN <<Head(listing)>> \o FilterMd(Tail(listing))
    ELSE FilterMd(Tail(listing))

\* What is kept of the call before the most recent one: its name, and the
\* arguments of a create_page that returned success.
Brief(call) ==
    IF call.op = "create_page" /\ "success" \in DOMAIN call.res
    THEN [op |-> call.op, args |-> call.args]
    ELSE [op |-> call.op]

Record(op, args, res) ==
    /\ last' = [op |-> op, args |-> args, res |-> res]
    /\ prev' = Brief(last)
    /\ pre' = fs

\* list_pages
ListPages(dataSet, listing) ==
    LET ds == DataSetOr(dataSet)
        dir == ContentDir(ds)
        base == [directory |-> dir, dataSet |-> ds]
    IN  IF ~Exists(fs, dir)
        THEN IF CanMkdirP(fs, dir)
             THEN /\ fs' = MkdirP(fs, dir)
                  /\ Record("list_pages", [dataSet |-> dataSet],
                            [pages |-> <<>>, directory |-> dir, directoryExists |-> TRUE,
                             dataSet |-> ds, directoryCreated |-> TRUE])
             ELSE /\ fs' = fs
                  /\ Record("list_pages", [dataSet |-> dataSet],
                            [pages |-> <<>>, directory |-> dir, directoryExists |-> FALSE,
                             dataSet |-> ds])
        ELSE /\ fs' = fs
             /\ Record("list_pages", [dataSet |-> dataSet],
                       [pages |-> IF CanReaddir(fs, dir) THEN FilterMd(listing) ELSE <<>>,
                        directory |-> dir, directoryExists |-> TRUE, dataSet |-> ds])

\* create_page
CreatePage(dataSet, fileName, title, copy) ==
    LET ds == DataSetOr(dataSet)
        dir == ContentDir(ds)
        args == [dataSet |-> dataSet, fileName |-> fileName, title |-> title, copy |-> copy]
        made == IF Exists(fs, dir) THEN fs ELSE MkdirP(fs, dir)
        filePath == PathJoin(dir, fileName)
    IN  IF fileName = <<>> \/ title = <<>> \/ copy = <<>>
        THEN /\ fs' = fs
             /\ Record("create_page", args, Thrown(MissingCreatePage))
        ELSE IF ~Exists(fs, dir) /\ ~CanMkdirP(fs, dir)
        THEN /\ fs' = fs
             /\ Record("create_page", args, Thrown("mkdir"))
        ELSE IF ~CanWrite(made, filePath)
        THEN /\ fs' = made
             /\ Record("create_page", args, Thrown("writeFile"))
        ELSE /\ fs' = WriteFile(made, filePath, Serialize(title, copy))
             /\ Record("create_page", args,
                       [success |-> TRUE, filePath |-> filePath, dataSet |-> ds,
                        directory |-> dir])

\* error.message of a failed fs.access(p) followed by fs.readFile(p): the
\* code of the first call that rejects
ReadErrorOf(f, p) ==
    IF Exists(f, p) THEN "EISDIR"
    ELSE IF \E q \in Prefixes(p) : IsFile(f, q) THEN "ENOTDIR"
    ELSE "ENOENT"

GetPageFailureThrown(pageName, ds, filePath, cause) == Thrown(cause)

\* the catch of get_page: `Error reading page ${pageName}: ${error.message}`
GetPageFailure(pageName, ds, filePath, cause) ==
    [success |-> FALSE,
     message |-> [text |-> "Error reading page", pageName |-> pageName, cause |-> cause],
     pageName |-> pageName, dataSet |-> ds, filePath |-> filePath]

\* get_page
GetPage(pageName, dataSet) ==
    LET ds == DataSetDefault(dataSet)
        dir == ContentDir(ds)
        filePath == PathJoin(dir, pageName)
        args == [pageName |-> pageName, dataSet |-> dataSet]
        parsed == ParsePage(fs[filePath].data)
    IN  /\ fs' = fs
        /\ IF pageName = <<>>
           THEN Record("get_page", args, Thrown(MissingArgument("pageName")))
           ELSE IF ~Exists(fs, filePath) \/ ~CanRead(fs, filePath)
           THEN Record("get_page", args,
                       GetPageFailure(pageName, ds, filePath, ReadErrorOf(fs, filePath)))
           ELSE Record("get_page", args,
                       [success |-> TRUE, pageName |-> pageName, dataSet |-> ds,
                        filePath |-> filePath, attributes |-> parsed.attributes,
                        content |-> parsed.content, rawContent |-> fs[filePath].data])

----------------------------------------------------------------------------
(* The decoration store: settings.yml, get_template, get_component         *)

SegSettings == <<"s", "e", "t", "t", "i", "n", "g", "s", ".", "y", "m", "l">>
SegDecoration == <<"d", "e", "c", "o", "r", "a", "t", "i", "o", "n">>
SegLight == <<"l", "i", "g", "h", "t">>
SegTemplates == <<"t", "e", "m", "p", "l", "a", "t", "e", "s">>
SegComponents == <<"c", "o", "m", "p", "o", "n", "e", "n", "t", "s">>
IndexHtml == <<"i", "n", "d", "e", "x", ".", "h", "t", "m", "l">>
TemplateHtml == <<"t", "e", "m", "p", "l", "a", "t", "e", ".", "h", "t", "m", "l">>
ExampleMd == <<"e", "x", "a", "m", "p", "l", "e", ".", "m", "d">>
ExampleHtml == <<"e", "x", "a", "m", "p", "l", "e", ".", "h", "t", "m", "l">>
DecorationKey == <<"d", "e", "c", "o", "r", "a", "t", "i", "o", "n", ":">>

\* A value that may be null.
Null == [null |-> TRUE, text |-> <<>>]
Some(text) == [null |-> FALSE, text |-> text]

\* for (const line of lines) if (line.startsWith('decoration:'))
\*     { decoration = line.split(':')[1].trim(); break; }
RECURSIVE DecorationOfLinesLast(_)
DecorationOfLinesLast(lines) ==
    IF lines = <<>> THEN SegLight
    ELSE IF StartsWith(lines[Len(lines)], DecorationKey)
         THEN Trim(Split(lines[Len(lines)], ":")[2])
         ELSE DecorationOfLinesLast(SubSeq(lines, 1, Len(lines) - 1))

RECURSIVE DecorationOfLines(_)
DecorationOfLines(lines) ==
    IF lines = <<>> THEN SegLight
    ELSE IF StartsWith(Head(lines), DecorationKey)
         THEN Trim(Split(Head(lines), ":")[2])
         ELSE DecorationOfLines(Tail(lines))

\* let decoration = 'light'; try { read settings.yml ... } catch { log }
GetDecoration(f) ==
    LET settingsPath == PAGES_DIR \o <<SegSettings>>
    IN  IF CanRead(f, settingsPath)
        THEN DecorationOfLines(Split(f[settingsPath].data, NL))
        ELSE SegLight

DecorationDir(f) == PathJoin(PAGES_DIR \o <<SegDecoration>>, GetDecoration(f))

TemplateExistsAfterRead(f, path) == CanRead(f, path)

\* await fs.access(templatePath); templateExists = true;
TemplateExists(f, path) == Exists(f, path)

\* try { content = await fs.readFile(path, 'utf8') } catch { log }
ReadOrNull(f, path) == IF CanRead(f, path) THEN Some(f[path].data) ELSE Null

\* get_template
GetTemplate(template) ==
    LET templateName == IF template.given /\ template.val # <<>> THEN template.val
                        ELSE IndexHtml
        templatesDir == DecorationDir(fs) \o <<SegTemplates>>
        templatePath == PathJoin(templatesDir, templateName)
    IN  /\ fs' = fs
        /\ Record("get_template", [template |-> template],
                  [decoration |-> GetDecoration(fs),
                   templatesDir |-> templatesDir,
                   templateName |-> templateName,
                   templateExists |-> TemplateExists(fs, templatePath),
                   template |-> IF TemplateExists(fs, templatePath)
                                THEN ReadOrNull(fs, templatePath) ELSE Null])

SegMarkdown == <<"m", "a", "r", "k", "d", "o", "w", "n">>

\* for (const file of files) if (file.endsWith('.html')) markdownFiles[file]
\* = await fs.readFile(...): the first read that fails ends the loop, and
\* what was read before it is kept.
RECURSIVE MarkdownFiles(_, _, _, _)
MarkdownFiles(f, dir, files, acc) ==
    IF files = <<>> THEN acc
    ELSE LET file == Head(files)
         IN  IF ~EndsWith(file, ExtHtml) THEN MarkdownFiles(f, dir, Tail(files), acc)
             ELSE IF ~CanRead(f, dir \o <<file>>) THEN acc
             ELSE MarkdownFiles(f, dir, Tail(files),
                                [x \in (DOMAIN acc) \cup {file} |->
                                    IF x = file THEN f[dir \o <<file>>].data ELSE acc[x]])

\* get_markdown.  listing is the order in which readdir lists markdownDir.
GetMarkdown(listing) ==
    LET markdownDir == DecorationDir(fs) \o <<SegMarkdown>>
    IN  /\ fs' = fs
        /\ Record("get_markdown", [listing |-> listing],
                  [decoration |-> GetDecoration(fs),
                   markdownDir |-> markdownDir,
                   templates |-> IF CanReaddir(fs, markdownDir)
                                 THEN MarkdownFiles(fs, markdownDir, listing, NoAttributes)
                                 ELSE NoAttributes])

\* The three reads under one try: the first failure abandons the rest.
ComponentFilesOneTry(f, dir) ==
    LET t == ReadOrNull(f, dir \o <<TemplateHtml>>)
        m == ReadOrNull(f, dir \o <<ExampleMd>>)
        h == ReadOrNull(f, dir \o <<ExampleHtml>>)
    IN  [template |-> IF Exists(f, dir) THEN t ELSE Null,
         exampleMd |-> IF Exists(f, dir) /\ ~t.null THEN m ELSE Null,
         exampleHtml |-> IF Exists(f, dir) /\ ~t.null /\ ~m.null THEN h ELSE Null]

\* get_component: after fs.access(componentDir) succeeds, three reads, each
\* in a try of its own
ComponentFiles(f, dir) ==
    [template |-> IF Exists(f, dir) THEN ReadOrNull(f, dir \o <<TemplateHtml>>) ELSE Null,
     exampleMd |-> IF Exists(f, dir) THEN ReadOrNull(f, dir \o <<ExampleMd>>) ELSE Null,
     exampleHtml |-> IF Exists(f, dir) THEN ReadOrNull(f, dir \o <<ExampleHtml>>) ELSE Null]

GetComponent(component) ==
    LET componentsDir == DecorationDir(fs) \o <<SegComponents>>
        componentDir == PathJoin(componentsDir, component)
        files == ComponentFiles(fs, componentDir)
    IN  /\ fs' = fs
        /\ IF component = <<>>
           THEN Record("get_component", [component |-> component], Thrown(MissingArgument("component")))
           ELSE Record("get_component", [component |-> component],
                       [decoration |-> GetDecoration(fs),
                        componentsDir |-> componentsDir,
                        componentDir |-> componentDir,
                        component |-> component,
                        componentExists |-> Exists(fs, componentDir),
                        template |-> files.template,
                        exampleMd |-> files.exampleMd,
                        exampleHtml |-> files.exampleHtml])

----------------------------------------------------------------------------
(* The sitemap builder: xml_sitemap                                        *)

SitemapXml == <<"s", "i", "t", "e", "m", "a", "p", ".", "x", "m", "l">>
IndexMd == <<"i", "n", "d", "e", "x", ".", "m", "d">>
AliasPrefix == AliasKey \o <<":">>
DistDir == CMS_DIR \o <<SegDist>>

Letters ==
    {"a", "b", "c", "d", "e", "f", "g", "h", "i", "j", "k", "l", "m",
     "n", "o", "p", "q", "r", "s", "t", "u", "v", "w", "x", "y", "z"}

\* mdFile.replace(/\.md$/, '.html')
ReplaceMd(name) ==
    IF EndsWith(name, ExtMd) THEN SubSeq(name, 1, Len(name) - Len(ExtMd)) \o ExtHtml
    ELSE name

\* for (const line of lines) if (line.startsWith('alias:'))
\*     { alias = line.split(':')[1].trim().replace(/^"(.*)"$/, '$1'); break; }
AliasOfLines(lines) ==
    LET hits == {i \in 1..Len(lines) : StartsWith(lines[i], AliasPrefix)}
    IN  IF hits = {} THEN Null
        ELSE Some(StripQuotes(Trim(Split(lines[MinOf(hits)], ":")[2])))

\* The relative URL of a page: its alias when the frontmatter has a
\* non-empty one, else the file name with .md replaced by .html.
SitemapUrl(mdFile, content) ==
    LET m == FrontmatterMatch(content)
        alias == AliasOfLines(Split(m.block, NL))
    IN  IF m.matched /\ ~alias.null /\ alias.text # <<>> THEN alias.text
        ELSE ReplaceMd(mdFile)

\* new URL(url, baseUrl).href.  The resolution itself is the platform's and
\* is kept symbolic; what is modelled is that it throws when baseUrl is not
\* an absolute URL (it has no scheme).
HasScheme(text) ==
    \E i \in 2..Len(text) : text[i] = ":" /\ \A j \in 1..(i - 1) : text[j] \in Letters

ResolveUrl(url, baseUrl) ==
    [ok |-> HasScheme(baseUrl),
     href |-> <<"new URL(">> \o url \o <<", ">> \o baseUrl \o <<").href">>]

PriorityOfPage(mdFile, url) == IF ReplaceMd(mdFile) = IndexHtml THEN "1.0" ELSE "0.8"

\* priority: url === 'index.html' ? '1.0' : '0.8'
Priority(mdFile, url) == IF url = IndexHtml THEN "1.0" ELSE "0.8"

\* The loop with its try around the whole of it: the first failure ends it.
RECURSIVE SitemapEntriesAbort(_, _, _, _, _)
SitemapEntriesAbort(f, dir, mdFiles, baseUrl, date) ==
    IF mdFiles = <<>> THEN <<>>
    ELSE LET mdFile == Head(mdFiles)
             filePath == PathJoin(dir, mdFile)
             url == SitemapUrl(mdFile, f[filePath].data)
             loc == ResolveUrl(url, baseUrl)
         IN  IF CanRead(f, filePath) /\ loc.ok
             THEN <<[loc |-> loc.href, lastmod |-> date, changefreq |-> "weekly",
                     priority |-> Priority(mdFile, url)]>>
                      \o SitemapEntriesAbort(f, dir, Tail(mdFiles), baseUrl, date)
             ELSE <<>>

\* The entries pushed for the .md files, in listing order: a file that
\* cannot be read, or whose URL cannot be resolved, throws inside the loop's
\* try and is skipped.
RECURSIVE SitemapEntries(_, _, _, _, _)
SitemapEntries(f, dir, mdFiles, baseUrl, date) ==
    IF mdFiles = <<>> THEN <<>>
    ELSE LET mdFile == Head(mdFiles)
             filePath == PathJoin(dir, mdFile)
             url == SitemapUrl(mdFile, f[filePath].data)
             loc == ResolveUrl(url, baseUrl)
             rest == SitemapEntries(f, dir, Tail(mdFiles), baseUrl, date)
         IN  IF CanRead(f, filePath) /\ loc.ok
             THEN <<[loc |-> loc.href, lastmod |-> date, changefreq |-> "weekly",
                     priority |-> Priority(mdFile, url)]>> \o rest
             ELSE rest

\* The document written to sitemap.xml.  A string of more than one
\* character stands for that literal run of characters.
RECURSIVE SitemapBody(_)
SitemapBody(urls) ==
    IF urls = <<>> THEN <<>>
    ELSE LET u == Head(urls)
         IN  <<"  ", "<url>", NL,
               "    ", "<loc>">> \o u.loc \o <<"</loc>", NL,
               "    ", "<lastmod>", u.lastmod, "</lastmod>", NL,
               "    ", "<changefreq>", u.changefreq, "</changefreq>", NL,
               "    ", "<priority>", u.priority, "</priority>", NL,
               "  ", "</url>", NL>> \o SitemapBody(Tail(urls))

SitemapContent(urls) ==
    <<"<?xml version=\"1.0\" encoding=\"UTF-8\"?>", NL,
      "<urlset xmlns=\"http://www.sitemaps.org/schemas/sitemap/0.9\">", NL>>
        \o SitemapBody(urls) \o <<"</urlset>">>

\* xml_sitemap.  listing is the order in which readdir lists the dataset
\* directory, date the current UTC date.
XmlSitemap(baseUrl, dataSet, listing, date) ==
    LET ds == DataSetDefault(dataSet)
        dir == ContentDir(ds)
        args == [baseUrl |-> baseUrl, dataSet |-> dataSet, listing |-> listing, date |-> date]
        urls == SitemapEntries(fs, dir, FilterMd(listing), baseUrl, date)
        made == IF Exists(fs, DistDir) THEN fs ELSE MkdirP(fs, DistDir)
        sitemapPath == DistDir \o <<SitemapXml>>
        failure == [success |-> FALSE, baseUrl |-> baseUrl, dataSet |-> ds]
    IN  IF baseUrl = <<>>
        THEN /\ fs' = fs
             /\ Record("xml_sitemap", args, Thrown(MissingArgument("baseUrl")))
        ELSE IF ~Exists(fs, dir) \/ ~CanReaddir(fs, dir)
        THEN /\ fs' = fs
             /\ Record("xml_sitemap", args, failure @@ [message |-> "readdir"])
        ELSE IF ~Exists(fs, DistDir) /\ ~CanMkdirP(fs, DistDir)
        THEN /\ fs' = fs
             /\ Record("xml_sitemap", args, failure @@ [message |-> "mkdir"])
        ELSE IF ~CanWrite(made, sitemapPath)
        THEN /\ fs' = made
             /\ Record("xml_sitemap", args, failure @@ [message |-> "writeFile"])
        ELSE /\ fs' = WriteFile(made, sitemapPath, SitemapContent(urls))
             /\ Record("xml_sitemap", args,
                       [success |-> TRUE, sitemapPath |-> sitemapPath, baseUrl |-> baseUrl,
                        dataSet |-> ds, urlCount |-> Len(urls), urls |-> urls])

----------------------------------------------------------------------------
(* The output writer: save_html                                            *)

\* let staticFilePath = '': the empty string, which is no path of the tree
EmptyPath == <<<<>>>>

\* error.message of a rejected fs.mkdir(p, { recursive: true })
MkdirErrorOf(f, p) == IF IsFile(f, p) THEN "EEXIST" ELSE "ENOTDIR"

\* error.message of a rejected fs.writeFile(p, ...)
WriteErrorOf(f, p) ==
    IF IsDir(f, p) THEN "EISDIR"
    ELSE IF Exists(f, Parent(p)) THEN "ENOTDIR"
    ELSE "ENOENT"

SaveHtmlFailure(fileName, filePath, cause) ==
    [success |-> FALSE,
     message |-> [text |-> "Error generating static file", fileName |-> fileName,
                  cause |-> cause],
     filePath |-> filePath, distDir |-> DistDir]

\* try { access(dir) } catch { mkdir(dir, { recursive: true }) }: the tree
\* afterwards, when the mkdir does not reject
Ensured(f, dir) == IF Exists(f, dir) THEN f ELSE MkdirP(f, dir)
CanEnsure(f, dir) == Exists(f, dir) \/ CanMkdirP(f, dir)

\* if (fileDir !== distDir) try { access(fileDir) } catch { mkdir(fileDir) }
SaveHtmlSubdirs(f, fileDir) == IF fileDir # DistDir THEN Ensured(f, fileDir) ELSE f

\* save_html
SaveHtml(fileName, content) ==
    LET args == [fileName |-> fileName, content |-> content]
        withDist == Ensured(fs, DistDir)
        staticFilePath == PathJoin(DistDir, fileName)
        fileDir == Dirname(staticFilePath)
        withDirs == SaveHtmlSubdirs(withDist, fileDir)
    IN  IF fileName = <<>>
        THEN /\ fs' = fs
             /\ Record("save_html", args, Thrown(MissingArgument("fileName")))
        ELSE IF content = <<>>
        THEN /\ fs' = fs
             /\ Record("save_html", args, Thrown(MissingArgument("content")))
        ELSE IF ~CanEnsure(fs, DistDir)
        THEN /\ fs' = fs
             /\ Record("save_html", args,
                       SaveHtmlFailure(fileName, EmptyPath, MkdirErrorOf(fs, DistDir)))
        ELSE IF fileDir # DistDir /\ ~CanEnsure(withDist, fileDir)
        THEN /\ fs' = withDist
             /\ Record("save_html", args,
                       SaveHtmlFailure(fileName, staticFilePath, MkdirErrorOf(withDist, fileDir)))
        ELSE IF ~CanWrite(withDirs, staticFilePath)
        THEN /\ fs' = withDirs
             /\ Record("save_html", args,
                       SaveHtmlFailure(fileName, staticFilePath,
                                       WriteErrorOf(withDirs, staticFilePath)))
        ELSE /\ fs' = WriteFile(withDirs, staticFilePath, content)
             /\ Record("save_html", args,
                       [success |-> TRUE,
                        message |-> [text |-> "Static file generated successfully",
                                     fileName |-> fileName],
                        filePath |-> staticFilePath, distDir |-> DistDir])

\* save_html in a workspace where the process may not create or write
\* anything (every mkdir and writeFile rejects with EACCES at the latest):
\* the same code, with fs.access as the only call that can pass.
SaveHtmlDenied(fileName, content) ==
    LET args == [fileName |-> fileName, content |-> content]
        staticFilePath == PathJoin(DistDir, fileName)
        fileDir == Dirname(staticFilePath)
    IN  /\ fs' = fs
        /\ IF fileName = <<>>
           THEN Record("save_html", args, Thrown(MissingArgument("fileName")))
           ELSE IF content = <<>>
           THEN Record("save_html", args, Thrown(MissingArgument("content")))
           ELSE IF ~Exists(fs, DistDir)
           THEN Record("save_html", args, SaveHtmlFailure(fileName, EmptyPath, "EACCES"))
           ELSE IF fileDir # DistDir /\ ~Exists(fs, fileDir)
           THEN Record("save_html", args,
                       SaveHtmlFailure(fileName, staticFilePath,
                                       IF CanMkdirP(fs, fileDir) THEN "EACCES"
                                       ELSE MkdirErrorOf(fs, fileDir)))
           ELSE Record("save_html", args,
                       SaveHtmlFailure(fileName, staticFilePath,
                                       IF CanWrite(fs, staticFilePath) THEN "EACCES"
                                       ELSE WriteErrorOf(fs, staticFilePath)))

----------------------------------------------------------------------------
(* The media mirror: copy_media                                            *)

SegMedia == <<"m", "e", "d", "i", "a">>
MediaSourceDir == PAGES_DIR \o <<SegMedia>>
MediaDestDir == DistDir \o <<SegMedia>>

\* The names of a set in the order a listing gives them.
InOrder(names, order) ==
    LET Keep(n) == n \in names
    IN  SelectSeq(order, Keep)

CopyOk(f) == [ok |-> TRUE, fs |-> f, cause |-> "none"]
CopyFailed(f, cause) == [ok |-> FALSE, fs |-> f, cause |-> cause]

\* await fs.mkdir(dest, { recursive: true }).catch(err => { if (err.code
\* !== 'EEXIST') throw err; }): a file at dest rejects with EEXIST, which is
\* swallowed; a file above dest rejects with ENOTDIR, which is thrown.
MkdirDest(f, dest) ==
    IF Exists(f, dest) THEN CopyOk(f)
    ELSE IF CanMkdirP(f, dest) THEN CopyOk(MkdirP(f, dest))
    ELSE CopyFailed(f, "ENOTDIR")

\* await fs.copyFile(src, dest)
CopyFile(f, src, dest) ==
    IF CanWrite(f, dest) THEN CopyOk(WriteFile(f, dest, f[src].data))
    ELSE CopyFailed(f, WriteErrorOf(f, dest))

\* copyRecursive(src, dest); order is the order in which readdir lists
\* names.  The first rejection ends the whole copy.
RECURSIVE CopyRecursive(_, _, _, _)
RECURSIVE CopyEntries(_, _, _, _, _)
CopyEntries(f, src, dest, entries, order) ==
    IF entries = <<>> THEN CopyOk(f)
    ELSE LET one == CopyRecursive(f, src \o <<Head(entries)>>,
                                  dest \o <<Head(entries)>>, order)
         IN  IF one.ok THEN CopyEntries(one.fs, src, dest, Tail(entries), order)
             ELSE one

CopyRecursive(f, src, dest, order) ==
    IF IsDir(f, src)
    THEN LET made == MkdirDest(f, dest)
         IN  IF made.ok
             THEN CopyEntries(made.fs, src, dest, InOrder(Entries(f, src), order), order)
             ELSE made
    ELSE CopyFile(f, src, dest)

\* copy_media
CopyMedia(order) ==
    LET top == MkdirDest(fs, MediaDestDir)
        done == CopyRecursive(top.fs, MediaSourceDir, MediaDestDir, order)
        failure(cause) ==
            [success |-> FALSE,
             message |-> [text |-> "Error copying media files", cause |-> cause],
             sourceDir |-> MediaSourceDir, destinationDir |-> MediaDestDir]
    IN  IF ~Exists(fs, MediaSourceDir)
        THEN /\ fs' = fs
             /\ Record("copy_media", [order |-> order], failure("Source directory does not exist"))
        ELSE IF ~top.ok
        THEN /\ fs' = top.fs
             /\ Record("copy_media", [order |-> order], failure(top.cause))
        ELSE IF ~done.ok
        THEN /\ fs' = done.fs
             /\ Record("copy_media", [order |-> order], failure(done.cause))
        ELSE /\ fs' = done.fs
             /\ Record("copy_media", [order |-> order],
                       [success |-> TRUE, message |-> [text |-> "Media files copied successfully"],
                        sourceDir |-> MediaSourceDir, destinationDir |-> MediaDestDir])

----------------------------------------------------------------------------
(* The output manager: empty_dist, one file-system call per step.          *)
(* ed.stack holds the activations of removeRecursive, innermost last: the  *)
(* directory, the entries still to visit, the entry being handled and the  *)
(* call the activation is about to make.                                   *)

Frame(dir) == [dir |-> dir, todo |-> {}, cur |-> <<>>, at |-> "readdir"]

Top == ed.stack[Len(ed.stack)]
CurPath == Top.dir \o <<Top.cur>>

\* The activation on top ends, normally or through its catch: the caller
\* goes on, or the final mkdir is reached.
Popped ==
    LET rest == SubSeq(ed.stack, 1, Len(ed.stack) - 1)
    IN  [ed EXCEPT !.stack = rest, !.pc = IF rest = <<>> THEN "mkdir" ELSE "run"]

Stepped(frame) == [ed EXCEPT !.stack[Len(ed.stack)] = frame]

\* await fs.access(emptyDistDir).catch(() => fs.mkdir(...))
EdCall ==
    /\ ed.pc \in {"idle", "done"}
    /\ ed' = [ed EXCEPT !.pc = IF Exists(fs, DistDir) THEN "run" ELSE "create",
                        !.stack = IF Exists(fs, DistDir) THEN <<Frame(DistDir)>> ELSE <<>>]
    /\ last' = [op |-> "empty_dist", args |-> <<>>, res |-> [pending |-> TRUE]]
    /\ prev' = Brief(last)
    /\ pre' = fs
    /\ UNCHANGED <<fs, fm, host>>

EdFailed == [success |-> FALSE, distDir |-> DistDir]
EdSucceeded == [success |-> TRUE, distDir |-> DistDir]

\* The answer of empty_dist, whatever was answered while it ran.
EdAnswer(res) == [op |-> "empty_dist", args |-> <<>>, res |-> res]

\* return fs.mkdir(emptyDistDir, { recursive: true }) inside the catch
EdCreate ==
    /\ ed.pc = "create"
    /\ IF CanMkdirP(fs, DistDir)
       THEN /\ fs' = MkdirP(fs, DistDir)
            /\ ed' = [ed EXCEPT !.pc = "run", !.stack = <<Frame(DistDir)>>]
            /\ UNCHANGED last
       ELSE /\ fs' = fs
            /\ ed' = [ed EXCEPT !.pc = "done"]
            /\ last' = EdAnswer(EdFailed)
    /\ UNCHANGED <<prev, pre, fm, host>>

\* const entries = await fs.readdir(dirPath)
EdReaddir ==
    /\ ed.pc = "run" /\ Top.at = "readdir"
    /\ ed' = IF CanReaddir(fs, Real(fs, Top.dir))
             THEN Stepped([Top EXCEPT !.todo = Entries(fs, Real(fs, Top.dir)), !.at = "loop"])
             ELSE Popped
    /\ UNCHANGED <<fs, last, prev, pre, fm, host>>

\* const stats = await fs.stat(entryPath), for the next entry; stat
\* follows a symbolic link and reports on what it points to
EdStat ==
    /\ ed.pc = "run" /\ Top.at = "loop"
    /\ \E entry \in Top.todo :
          LET entryPath == Top.dir \o <<entry>>
              taken == [Top EXCEPT !.todo = Top.todo \ {entry}, !.cur = entry]
          IN  ed' = IF ~Exists(fs, Real(fs, entryPath)) THEN Popped
                    ELSE IF IsDir(fs, Real(fs, entryPath))
                    THEN [ed EXCEPT !.stack = SubSeq(ed.stack, 1, Len(ed.stack) - 1)
                                        \o <<[taken EXCEPT !.at = "rmdir"], Frame(entryPath)>>]
                    ELSE Stepped([taken EXCEPT !.at = "unlink"])
    /\ UNCHANGED <<fs, last, prev, pre, fm, host>>

\* await fs.unlink(entryPath)
EdUnlink ==
    /\ ed.pc = "run" /\ Top.at = "unlink"
    /\ IF CanUnlink(fs, RealEntry(fs, CurPath))
       THEN /\ fs' = Remove(fs, RealEntry(fs, CurPath))
            /\ ed' = Stepped([Top EXCEPT !.at = "loop", !.cur = <<>>])
       ELSE /\ fs' = fs
            /\ ed' = Popped
    /\ UNCHANGED <<last, prev, pre, fm, host>>

EdRmdirSkipped ==
    /\ ed.pc = "run" /\ Top.at = "rmdir"
    /\ fs' = fs
    /\ ed' = Stepped([Top EXCEPT !.at = "loop", !.cur = <<>>])
    /\ UNCHANGED <<last, prev, pre, fm, host>>

\* await fs.rmdir(entryPath), once removeRecursive(entryPath) has returned
EdRmdir ==
    /\ ed.pc = "run" /\ Top.at = "rmdir"
    /\ IF CanRmdir(fs, RealEntry(fs, CurPath))
       THEN /\ fs' = Remove(fs, RealEntry(fs, CurPath))
            /\ ed' = Stepped([Top EXCEPT !.at = "loop", !.cur = <<>>])
       ELSE /\ fs' = fs
            /\ ed' = Popped
    /\ UNCHANGED <<last, prev, pre, fm, host>>

\* the for loop of an activation is over
EdReturn ==
    /\ ed.pc = "run" /\ Top.at = "loop" /\ Top.todo = {}
    /\ ed' = Popped
    /\ UNCHANGED <<fs, last, prev, pre, fm, host>>

\* A last step that removes the emptied directory where the code creates it.
EdFinishRmdir ==
    /\ ed.pc = "mkdir"
    /\ fs' = IF CanRmdir(fs, DistDir) THEN Remove(fs, DistDir) ELSE fs
    /\ last' = EdAnswer(EdSucceeded)
    /\ ed' = [ed EXCEPT !.pc = "done"]
    /\ UNCHANGED <<prev, pre, fm, host>>

\* await fs.mkdir(emptyDistDir, { recursive: true }); return success
EdFinish ==
    /\ ed.pc = "mkdir"
    /\ IF CanMkdirP(fs, DistDir)
       THEN /\ fs' = MkdirP(fs, DistDir)
            /\ last' = EdAnswer(EdSucceeded)
       ELSE /\ fs' = fs
            /\ last' = EdAnswer(EdFailed)
    /\ ed' = [ed EXCEPT !.pc = "done"]
    /\ UNCHANGED <<prev, pre, fm, host>>

EmptyDistStep ==
    EdCall \/ EdCreate \/ EdReaddir \/ EdStat \/ EdUnlink \/ EdRmdir \/ EdReturn \/ EdFinish

----------------------------------------------------------------------------
(* The preview server: run_server and its request handler                  *)

\* The process runs, no server of its own listens, no listen is failing.
HostIdle == [alive |-> TRUE, ports |-> {}, failing |-> {}]

\* const port = args.port || 8080
DefaultPort == 8080
PortOr(port) == IF port = 0 THEN DefaultPort ELSE port

\* path.extname of a file name: from its last '.', unless there is none or
\* the only one is the first character
ExtName(name) ==
    LET dots == {i \in 2..Len(name) : name[i] = "."}
    IN  IF dots = {} THEN <<>> ELSE SubSeq(name, MaxOf(dots), Len(name))

\* let contentType = 'text/html'; switch (extname) { ... }
ContentType(extname) ==
    IF extname = <<".", "j", "s">> THEN "text/javascript"
    ELSE IF extname = <<".", "c", "s", "s">> THEN "text/css"
    ELSE IF extname = <<".", "j", "s", "o", "n">> THEN "application/json"
    ELSE IF extname = <<".", "p", "n", "g">> THEN "image/png"
    ELSE IF extname \in {<<".", "j", "p", "g">>, <<".", "j", "p", "e", "g">>} THEN "image/jpeg"
    ELSE IF extname = <<".", "g", "i", "f">> THEN "image/gif"
    ELSE IF extname = <<".", "s", "v", "g">> THEN "image/svg+xml"
    ELSE IF extname = <<".", "x", "m", "l">> THEN "application/xml"
    ELSE "text/html"

\* path.join keeps the '/' that ends a url other than '/'
TrailingSlash(url) == Len(url) > 1 /\ url[Len(url)] = "/"

\* path.join(serverDistDir, req.url === '/' ? 'index.html' : req.url), with
\* '.html' appended to a path that has no extension: to its last name, or
\* after the '/' that ends it, which names the entry '.html' of it
RequestPath(url) ==
    LET joined == IF url = <<"/">> THEN DistDir \o <<IndexHtml>> ELSE PathJoin(DistDir, url)
        name == IF joined = <<>> THEN <<>> ELSE joined[Len(joined)]
    IN  IF joined # <<>> /\ ExtName(name) = <<>>
        THEN IF TrailingSlash(url) THEN joined \o <<ExtHtml>>
             ELSE SubSeq(joined, 1, Len(joined) - 1) \o <<name \o ExtHtml>>
        ELSE joined

\* fs.access(filePath): a path that ends in '/' passes only as a directory
CanAccess(f, url) ==
    /\ Exists(f, RequestPath(url))
    /\ (TrailingSlash(url) /\ RequestPath(url) = PathJoin(DistDir, url))
          => IsDir(f, RequestPath(url))

\* url: `http://localhost:${port}/`
ServerUrl(p) == <<"http://localhost:", p, "/">>

\* run_server.  The result spreads serverInfo: the server object (here by
\* its name), port, url and distDir.  listen(port) reports a port that is in use by an 'error'
\* event after the tool has returned its result.
RunServer(port, taken) ==
    LET p == PortOr(port)
        args == [port |-> port]
    IN  /\ host.alive
        /\ fs' = fs
        /\ IF ~Exists(fs, DistDir)
           THEN /\ Record("run_server", args,
                          [success |-> FALSE,
                           message |-> [text |-> "Error starting server",
                                        cause |-> "Dist directory does not exist"],
                           port |-> p, distDir |-> DistDir])
                /\ host' = host
           ELSE /\ Record("run_server", args,
                          [success |-> TRUE, message |-> [text |-> "Server running"],
                           server |-> "http.Server", port |-> p, url |-> ServerUrl(p),
                           distDir |-> DistDir])
                /\ host' = IF p \in host.ports \cup taken
                           THEN [host EXCEPT !.failing = host.failing \cup {p}]
                           ELSE [host EXCEPT !.ports = host.ports \cup {p}]

\* The 'error' event of a server whose listen failed: no listener is
\* attached, so the event is thrown as an uncaught exception.
ListenError ==
    /\ host.alive
    /\ host.failing # {}
    /\ host' = [host EXCEPT !.alive = FALSE]
    /\ UNCHANGED <<fs, last, prev, fm, ed, pre>>

\* A request to a listening server.  A path that passes fs.access and is a
\* directory gets its 200 headers; createReadStream then emits 'error', to
\* which no listener is attached.
HttpRequest(port, url) ==
    LET filePath == RequestPath(url)
        args == [port |-> port, url |-> url]
    IN  /\ host.alive
        /\ port \in host.ports
        /\ fs' = fs
        /\ IF ~CanAccess(fs, url)
           THEN /\ Record("http", args,
                          [status |-> 404, contentType |-> "text/plain",
                           body |-> <<"404 Not Found">>, filePath |-> filePath])
                /\ host' = host
           ELSE IF IsFile(fs, filePath)
           THEN /\ Record("http", args,
                          [status |-> 200,
                           contentType |-> ContentType(ExtName(filePath[Len(filePath)])),
                           body |-> fs[filePath].data, filePath |-> filePath])
                /\ host' = host
           ELSE /\ Record("http", args,
                          [status |-> 200,
                           contentType |-> ContentType(ExtName(filePath[Len(filePath)])),
                           body |-> <<>>, filePath |-> filePath])
                /\ host' = [host EXCEPT !.alive = FALSE]

----------------------------------------------------------------------------
(* Bounded inputs of the codec                                             *)

MaxTitleLen == 3
MaxBodyLen == 2

TitleAlphabet == {"a", " ", "\n", ":", "\"", "-"}
BodyAlphabet == {"a", " ", "\n", "-"}

TextsUpTo(alphabet, n) == UNION {[1..k -> alphabet] : k \in 0..n}

\* create_page rejects a falsy (empty) title or copy
FmTitles == TextsUpTo(TitleAlphabet, MaxTitleLen) \ {<<>>}
FmBodies == TextsUpTo(BodyAlphabet, MaxBodyLen) \ {<<>>}

FmIdle == [phase |-> "off", title |-> <<>>, copy |-> <<>>, text |-> <<>>,
           attributes |-> NoAttributes, content |-> <<>>]

NoCall == [op |-> "none"]
EdIdle == [pc |-> "idle", stack |-> <<>>, ext |-> {}]

FmInit ==
    /\ fm \in {[phase |-> "input", title |-> t, copy |-> b, text |-> <<>>,
                attributes |-> NoAttributes, content |-> <<>>] :
                   t \in FmTitles, b \in FmBodies}
    /\ fs = <<>>
    /\ last = NoCall
    /\ prev = NoCall
    /\ ed = EdIdle
    /\ host = HostIdle
    /\ pre = <<>>

FmSerialize ==
    /\ fm.phase = "input"
    /\ fm' = [fm EXCEPT !.phase = "text", !.text = Serialize(fm.title, fm.copy)]
    /\ UNCHANGED <<fs, last, prev, ed, pre, host>>

FmParse ==
    /\ fm.phase = "text"
    /\ LET p == ParsePage(fm.text)
       IN  fm' = [fm EXCEPT !.phase = "parsed",
                            !.attributes = p.attributes,
                            !.content = p.content]
    /\ UNCHANGED <<fs, last, prev, ed, pre, host>>

FmNext == FmSerialize \/ FmParse

SpecFm == FmInit /\ [][FmNext]_vars

----------------------------------------------------------------------------
(* The frontmatter parser applied to page texts of any shape               *)

MaxLineLen == 4

LineAlphabet == {"k", ":", " ", "\""}

\* A first line of the block, any text without a line break.
ParseLineArgs == TextsUpTo(LineAlphabet, MaxLineLen)

\* What may follow it in the block: nothing, a line that sets k again, a
\* line without a colon, an empty line.
ParseMoreArgs == {<<>>, <<NL, "k", ":", "k">>, <<NL, "k">>, <<NL>>}

ParseBodyArgs == {<<"x">>, <<" ", "x", " ">>}

\* Page texts: a block between fences and a body; a line without fences;
\* an opening fence that is never closed.
ParseTexts ==
    {PageOf(l \o m, b) : l \in ParseLineArgs, m \in ParseMoreArgs, b \in ParseBodyArgs}
        \cup ParseLineArgs
        \cup {Dashes \o <<NL>> \o l : l \in ParseLineArgs}

ParseInit ==
    /\ fm \in {[phase |-> "text", title |-> <<>>, copy |-> <<>>, text |-> t,
                attributes |-> NoAttributes, content |-> <<>>] : t \in ParseTexts}
    /\ fs = <<>>
    /\ last = NoCall
    /\ prev = NoCall
    /\ ed = EdIdle
    /\ host = HostIdle
    /\ pre = <<>>

SpecParse == ParseInit /\ [][FmParse]_vars

----------------------------------------------------------------------------
(* The content store under its tools: list_pages, create_page, get_page    *)

PageA == <<"a", ".", "m", "d">>
NoteN == <<"n">>
SetB == <<"b">>

DataSetArgs == {Absent, Given(<<>>), Given(SetB)}
FileNameArgs == {<<>>, PageA}
TitleArgs == {<<>>, <<"T">>}
CopyArgs == {<<>>, <<"x">>}

RootOnly == TreeOf({<<CMS_DIR, DirNode>>})

ContentRoot == PAGES_DIR \o <<SegContent>>

\* What a dataset directory may hold at the start: nothing, or a.md as a
\* page, as a page without frontmatter or as a directory, and a note n.
DataSetStart(ds) ==
    LET dir == ContentRoot \o <<ds>>
        pageChoices == {{}, {<<dir \o <<PageA>>, DirNode>>},
                        {<<dir \o <<PageA>>, FileNode(<<"x">>)>>},
                        {<<dir \o <<PageA>>, FileNode(Serialize(<<"T">>, <<"x">>))>>}}
        noteChoices == {{}, {<<dir \o <<NoteN>>, FileNode(<<"x">>)>>}}
    IN  {{}} \cup {{<<dir, DirNode>>} \cup a \cup n : a \in pageChoices, n \in noteChoices}

ContentStart ==
    {RootOnly} \cup
    {TreeOf({<<CMS_DIR, DirNode>>, <<PAGES_DIR, DirNode>>, <<ContentRoot, DirNode>>}
            \cup d \cup b) : d \in DataSetStart(SegDefault), b \in DataSetStart(SetB)}

PagesInit ==
    /\ fs \in ContentStart
    /\ last = NoCall
    /\ prev = NoCall
    /\ pre = fs
    /\ fm = FmIdle
    /\ ed = EdIdle
    /\ host = HostIdle

DoListPages ==
    \E dataSet \in DataSetArgs :
        \E listing \in Orderings(Entries(fs, ContentDir(DataSetOr(dataSet)))) :
            /\ ListPages(dataSet, listing)
            /\ UNCHANGED <<fm, ed, host>>

DoCreatePage ==
    \E dataSet \in DataSetArgs, fileName \in FileNameArgs,
       title \in TitleArgs, copy \in CopyArgs :
        /\ CreatePage(dataSet, fileName, title, copy)
        /\ UNCHANGED <<fm, ed, host>>

DoGetPage ==
    \E pageName \in FileNameArgs, dataSet \in DataSetArgs :
        /\ GetPage(pageName, dataSet)
        /\ UNCHANGED <<fm, ed, host>>

PagesNext == DoListPages \/ DoCreatePage \/ DoGetPage

Spec == PagesInit /\ [][PagesNext]_vars

----------------------------------------------------------------------------
(* The decoration store under its tools                                    *)

SegDark == <<"d">>
CompC == <<"c">>
CompQ == <<"q">>
OtherHtml == <<"x", ".", "h", "t", "m", "l">>

\* settings.yml: absent, naming decoration d, or without a decoration line
SettingsStart ==
    {{}, {<<PAGES_DIR \o <<SegSettings>>, FileNode(DecorationKey \o <<" ">> \o SegDark)>>},
         {<<PAGES_DIR \o <<SegSettings>>, FileNode(<<"x", ":", "y">>)>>}}

\* A path that holds nothing, a file with the given text, or a directory
\* (which exists but cannot be read as a file).
FileStart(path, text) == {{}, {<<path, FileNode(text)>>}, {<<path, DirNode>>}}

\* One decoration: its templates directory with index.html, and component c
\* with its three files.
DecorationStart(name) ==
    LET root == PAGES_DIR \o <<SegDecoration, name>>
        tdir == root \o <<SegTemplates>>
        cdir == root \o <<SegComponents, CompC>>
        templates == {{}} \cup {{<<tdir, DirNode>>} \cup i :
                                    i \in FileStart(tdir \o <<IndexHtml>>, <<"i">>)}
        component == {{}} \cup
            {{<<root \o <<SegComponents>>, DirNode>>, <<cdir, DirNode>>} \cup t \cup m \cup h :
                 t \in FileStart(cdir \o <<TemplateHtml>>, <<"t">>),
                 m \in FileStart(cdir \o <<ExampleMd>>, <<"m">>),
                 h \in FileStart(cdir \o <<ExampleHtml>>, <<"h">>)}
    IN  {{<<root, DirNode>>} \cup t \cup c : t \in templates, c \in component}

DecoStart ==
    {TreeOf({<<CMS_DIR, DirNode>>, <<PAGES_DIR, DirNode>>,
             <<PAGES_DIR \o <<SegDecoration>>, DirNode>>} \cup st \cup d) :
        st \in SettingsStart,
        d \in DecorationStart(SegLight) \cup DecorationStart(SegDark)}

DecoInit ==
    /\ fs \in DecoStart
    /\ last = NoCall
    /\ prev = NoCall
    /\ pre = fs
    /\ fm = FmIdle
    /\ ed = EdIdle
    /\ host = HostIdle

DoGetTemplate ==
    \E template \in {Absent, Given(IndexHtml), Given(OtherHtml)} :
        /\ GetTemplate(template)
        /\ UNCHANGED <<fm, ed, host>>

DoGetComponent ==
    \E component \in {<<>>, CompC, CompQ} :
        /\ GetComponent(component)
        /\ UNCHANGED <<fm, ed, host>>

DecoNext == DoGetTemplate \/ DoGetComponent

SpecDeco == DecoInit /\ [][DecoNext]_vars

----------------------------------------------------------------------------
(* The settings resolver under the three tools that use it                 *)

FileH1 == <<"h", "1", ".", "h", "t", "m", "l">>

\* settings.yml: absent; a directory; naming d; d followed by a second
\* colon; the key after a space; the key on a later line, twice; the key
\* with nothing after it; no key at all
SettingsTexts ==
    {DecorationKey \o <<" ">> \o SegDark,
     DecorationKey \o SegDark \o <<":", "z">>,
     <<" ">> \o DecorationKey \o SegDark,
     <<"x", ":", "y", NL>> \o DecorationKey \o <<" ">> \o SegDark \o <<" ", NL>>
         \o DecorationKey \o SegLight,
     DecorationKey,
     <<"x", ":", "y">>}

SettingsAnyStart ==
    {{}, {<<PAGES_DIR \o <<SegSettings>>, DirNode>>}}
        \cup {{<<PAGES_DIR \o <<SegSettings>>, FileNode(t)>>} : t \in SettingsTexts}

\* The decorations light and d, each absent or holding a markdown
\* template, a page template and the component c.
DecorationFilled(name) ==
    LET root == PAGES_DIR \o <<SegDecoration, name>>
    IN  {<<root, DirNode>>,
     <<root \o <<SegMarkdown>>, DirNode>>,
     <<root \o <<SegMarkdown, FileH1>>, FileNode(<<"h">> \o name)>>,
     <<root \o <<SegMarkdown, NoteN>>, FileNode(<<"n">>)>>,
     <<root \o <<SegTemplates>>, DirNode>>,
     <<root \o <<SegTemplates, IndexHtml>>, FileNode(<<"i">> \o name)>>,
     <<root \o <<SegComponents>>, DirNode>>,
     <<root \o <<SegComponents, CompC>>, DirNode>>,
     <<root \o <<SegComponents, CompC, TemplateHtml>>, FileNode(<<"t">> \o name)>>}

\* A decoration: absent, filled, or filled with the directory x.html beside
\* its markdown templates.
DecorationFull(name) ==
    {{}, DecorationFilled(name),
     DecorationFilled(name)
        \cup {<<PAGES_DIR \o <<SegDecoration, name, SegMarkdown, OtherHtml>>, DirNode>>}}

SettingsInit ==
    /\ fs \in {TreeOf({<<CMS_DIR, DirNode>>, <<PAGES_DIR, DirNode>>,
                       <<PAGES_DIR \o <<SegDecoration>>, DirNode>>} \cup st \cup l \cup d) :
                  st \in SettingsAnyStart,
                  l \in DecorationFull(SegLight),
                  d \in DecorationFull(SegDark)}
    /\ last = NoCall
    /\ prev = NoCall
    /\ pre = fs
    /\ fm = FmIdle
    /\ ed = EdIdle
    /\ host = HostIdle

DoGetMarkdown ==
    \E listing \in Orderings(Entries(fs, DecorationDir(fs) \o <<SegMarkdown>>)) :
        /\ GetMarkdown(listing)
        /\ UNCHANGED <<fm, ed, host>>

SettingsNext == DoGetMarkdown \/ DoGetTemplate \/ DoGetComponent

SpecSettings == SettingsInit /\ [][SettingsNext]_vars

----------------------------------------------------------------------------
(* The sitemap builder under its tool                                      *)

\* Page texts: no frontmatter; a title only; a plain alias; an alias that
\* is index.html; a quoted alias; an alias holding a colon.
SitemapTexts ==
    {<<"x">>,
     Serialize(<<"T">>, <<"x">>),
     PageOf(AliasPrefix \o <<" ", "/", "p">>, <<"x">>),
     PageOf(AliasPrefix \o <<" ">> \o IndexHtml, <<"x">>),
     PageOf(TitleKey \o <<":", "T", NL>> \o AliasPrefix \o <<QUOTE, "q", QUOTE>>, <<"x">>),
     PageOf(AliasPrefix \o <<" ", "a", ":", "b">>, <<"x">>)}

SitemapPageStart(path) ==
    {{}, {<<path, DirNode>>}} \cup {{<<path, FileNode(t)>>} : t \in SitemapTexts}

\* dist: absent, empty, holding an earlier sitemap.xml, or holding a
\* directory where sitemap.xml is to be written
DistStart ==
    {{}, {<<DistDir, DirNode>>},
     {<<DistDir, DirNode>>, <<DistDir \o <<SitemapXml>>, FileNode(<<"o", "l", "d">>)>>},
     {<<DistDir, DirNode>>, <<DistDir \o <<SitemapXml>>, DirNode>>}}

SitemapStart ==
    LET dir == ContentRoot \o <<SegDefault>>
        base == {<<CMS_DIR, DirNode>>, <<PAGES_DIR, DirNode>>, <<ContentRoot, DirNode>>}
        pages == {{}} \cup
                 {{<<dir, DirNode>>} \cup i \cup a \cup n :
                      i \in SitemapPageStart(dir \o <<IndexMd>>),
                      a \in SitemapPageStart(dir \o <<PageA>>),
                      n \in {{}, {<<dir \o <<NoteN>>, FileNode(<<"x">>)>>}}}
    IN  {TreeOf(base \cup p \cup d) : p \in pages, d \in DistStart}

BaseUrlArgs == {<<>>, <<"h", ":", "/", "/", "x", "/">>, <<"x">>}
Dates == {"2026-01-01", "2026-01-02"}

SitemapInit ==
    /\ fs \in SitemapStart
    /\ last = NoCall
    /\ prev = NoCall
    /\ pre = fs
    /\ fm = FmIdle
    /\ ed = EdIdle
    /\ host = HostIdle

\* One call from each starting tree: the call reads nothing that an
\* earlier xml_sitemap call writes.
DoXmlSitemap ==
    /\ last.op = "none"
    /\ \E baseUrl \in BaseUrlArgs, dataSet \in {Absent, Given(<<>>), Given(SetB)}, date \in Dates :
          \E listing \in Orderings(Entries(fs, ContentDir(DataSetDefault(dataSet)))) :
              /\ XmlSitemap(baseUrl, dataSet, listing, date)
              /\ UNCHANGED <<fm, ed, host>>

SitemapNext == DoXmlSitemap

SpecSitemap == SitemapInit /\ [][SitemapNext]_vars

----------------------------------------------------------------------------
(* The output manager under empty_dist, alone and beside another actor     *)

MaxDistEntries == 4
MaxExternal == 1

DistNames == {<<"a">>, <<"b">>}

\* The places below dist that may be occupied at the start.
DistPlaces == UNION {[1..k -> DistNames] : k \in 1..3}

\* Sets of places closed under parents.
DistShapes ==
    {sh \in SUBSET DistPlaces :
        /\ Cardinality(sh) <= MaxDistEntries
        /\ \A p \in sh : Len(p) > 1 => Parent(p) \in sh}

HasChild(sh, p) == \E q \in sh : Len(q) = Len(p) + 1 /\ IsPrefix(p, q)

\* Every way to make the childless places of a shape files or directories.
DistTrees ==
    UNION {
        {TreeOf({<<CMS_DIR, DirNode>>, <<DistDir, DirNode>>} \cup
                {<<DistDir \o p, IF p \in files THEN FileNode(<<"x">>) ELSE DirNode>> : p \in sh}) :
            files \in SUBSET {p \in sh : ~HasChild(sh, p)}} :
        sh \in DistShapes}

EmptyInit ==
    /\ fs \in {RootOnly} \cup DistTrees
    /\ last = NoCall
    /\ prev = NoCall
    /\ pre = fs
    /\ fm = FmIdle
    /\ ed = EdIdle
    /\ host = HostIdle

SpecEmpty == EmptyInit /\ [][EmptyDistStep]_vars

\* The entries an activation has listed and not yet removed.
Listed ==
    UNION {{ed.stack[i].dir \o <<e>> : e \in ed.stack[i].todo} \cup
           (IF ed.stack[i].at = "unlink" THEN {ed.stack[i].dir \o <<ed.stack[i].cur>>} ELSE {}) :
           i \in 1..Len(ed.stack)}

\* Another actor removes a file that empty_dist has listed and not yet
\* removed; ed.ext remembers which.
ExternalUnlink ==
    /\ ed.pc = "run"
    /\ Cardinality(ed.ext) < MaxExternal
    /\ \E p \in Listed :
          /\ IsFile(fs, p)
          /\ fs' = Remove(fs, p)
          /\ ed' = [ed EXCEPT !.ext = ed.ext \cup {p}]
    /\ UNCHANGED <<last, prev, pre, fm, host>>

EmptyRaceNext == EmptyDistStep \/ ExternalUnlink

SpecEmptyRace == EmptyInit /\ [][EmptyRaceNext]_vars

----------------------------------------------------------------------------
(* The output directory under save_html and copy_media                     *)

MaxMediaEntries == 2

FileP == <<"p">>
SubS == <<"s">>
MediaNames == {<<"a">>, <<"b">>}

\* fileName arguments: none, a file of dist, a file of a subdirectory, a
\* file below the mirrored media
SaveNameArgs ==
    {<<>>, FileP, SubS \o <<"/">> \o FileP, SegMedia \o <<"/", "a">>}
SaveContentArgs == {<<>>, <<"x">>, <<"y">>}

MediaPlaces == UNION {[1..k -> MediaNames] : k \in 1..2}

MediaShapes ==
    {sh \in SUBSET MediaPlaces :
        /\ Cardinality(sh) <= MaxMediaEntries
        /\ \A q \in sh : Len(q) > 1 => Parent(q) \in sh}

\* src/media: absent, or a directory whose childless places are files
\* (holding the text m) or directories
MediaStart ==
    {{}} \cup
    UNION {
        {{<<PAGES_DIR, DirNode>>, <<MediaSourceDir, DirNode>>} \cup
         {<<MediaSourceDir \o q, IF q \in files THEN FileNode(<<"m">>) ELSE DirNode>> : q \in sh} :
            files \in SUBSET {q \in sh : ~HasChild(sh, q)}} :
        sh \in MediaShapes}

\* dist: absent; empty; holding an earlier p; holding a file where the
\* subdirectory s is needed; holding earlier copies in media, as a file or
\* as a directory at media/a; holding a file where media is needed
DistOutputStart ==
    {{}, {<<DistDir, DirNode>>},
     {<<DistDir, DirNode>>, <<DistDir \o <<FileP>>, FileNode(<<"o">>)>>},
     {<<DistDir, DirNode>>, <<DistDir \o <<SubS>>, FileNode(<<"o">>)>>},
     {<<DistDir, DirNode>>, <<MediaDestDir, DirNode>>,
      <<MediaDestDir \o <<<<"a">>>>, FileNode(<<"o">>)>>},
     {<<DistDir, DirNode>>, <<MediaDestDir, DirNode>>,
      <<MediaDestDir \o <<<<"a">>>>, DirNode>>},
     {<<DistDir, DirNode>>, <<MediaDestDir, FileNode(<<"o">>)>>}}

DistInit ==
    /\ fs \in {TreeOf({<<CMS_DIR, DirNode>>} \cup m \cup d) :
                  m \in MediaStart, d \in DistOutputStart}
    /\ last = NoCall
    /\ prev = NoCall
    /\ pre = fs
    /\ fm = FmIdle
    /\ ed = EdIdle
    /\ host = HostIdle

DoSaveHtml ==
    \E fileName \in SaveNameArgs, content \in SaveContentArgs :
        /\ SaveHtml(fileName, content)
        /\ UNCHANGED <<fm, ed, host>>

DoCopyMedia ==
    \E order \in Orderings(MediaNames) :
        /\ CopyMedia(order)
        /\ UNCHANGED <<fm, ed, host>>

\* The same call when the workspace cannot be written.
DoSaveHtmlDenied ==
    \E fileName \in {FileP, SubS \o <<"/">> \o FileP} :
        /\ SaveHtmlDenied(fileName, <<"x">>)
        /\ UNCHANGED <<fm, ed, host>>

DistNext == DoSaveHtml \/ DoSaveHtmlDenied \/ DoCopyMedia

SpecDist == DistInit /\ [][DistNext]_vars

----------------------------------------------------------------------------
(* The preview server under run_server and requests                        *)

OtherPort == 9090

\* port arguments: none (0 stands for an absent port), the default, another
PortArgs == {0, DefaultPort, OtherPort}

\* ports another process may hold
TakenArgs == {{}, {OtherPort}}

FileTxt == <<"a", ".", "t", "x", "t">>
FileCss == <<"a", ".", "c", "s", "s">>
FileHtml == <<"a", ".", "h", "t", "m", "l">>
DirDotted == <<"d", ".", "x">>

\* request urls: the root, a page without its extension, files by name, a
\* directory whose name has an extension, a path that does not exist
UrlArgs ==
    {<<"/">>, <<"/", "a">>, <<"/">> \o FileTxt, <<"/">> \o FileCss,
     <<"/">> \o DirDotted, <<"/", "n", ".", "j", "s">>,
     <<"/">> \o SubS, <<"/">> \o SubS \o <<"/">>, <<"/">> \o FileTxt \o <<"/">>}

\* dist: absent, or holding any of index.html, a.html, a.txt, a.css, the
\* directory d.x, and the directory s with or without its index.html
ServedStart ==
    {{}} \cup
    {{<<DistDir, DirNode>>} \cup
     {<<DistDir \o <<n>>, FileNode(n)>> : n \in files} \cup d \cup sub :
        files \in SUBSET {IndexHtml, FileHtml, FileTxt, FileCss},
        d \in {{}, {<<DistDir \o <<DirDotted>>, DirNode>>}},
        sub \in {{}, {<<DistDir \o <<SubS>>, DirNode>>},
                 {<<DistDir \o <<SubS>>, DirNode>>,
                  <<DistDir \o <<SubS, IndexHtml>>, FileNode(<<"s">>)>>}}}

ServerInit ==
    /\ fs \in {TreeOf({<<CMS_DIR, DirNode>>} \cup d) : d \in ServedStart}
    /\ last = NoCall
    /\ prev = NoCall
    /\ pre = fs
    /\ fm = FmIdle
    /\ ed = EdIdle
    /\ host = HostIdle

DoRunServer ==
    \E port \in PortArgs, taken \in TakenArgs :
        /\ RunServer(port, taken)
        /\ UNCHANGED <<fm, ed>>

DoHttpRequest ==
    \E port \in host.ports, url \in UrlArgs :
        /\ HttpRequest(port, url)
        /\ UNCHANGED <<fm, ed>>

ServerNext == DoRunServer \/ ListenError \/ DoHttpRequest

SpecServer == ServerInit /\ [][ServerNext]_vars

----------------------------------------------------------------------------
(* All the tools behind one caller that sends a request once the previous  *)
(* one has been answered                                                   *)

\* A workspace with one page, one media file and the decoration light.
SourceTree ==
    {<<CMS_DIR, DirNode>>, <<PAGES_DIR, DirNode>>,
     <<ContentRoot, DirNode>>, <<ContentRoot \o <<SegDefault>>, DirNode>>,
     <<ContentRoot \o <<SegDefault, PageA>>, FileNode(Serialize(<<"T">>, <<"x">>))>>,
     <<MediaSourceDir, DirNode>>,
     <<MediaSourceDir \o <<<<"a">>>>, FileNode(<<"m">>)>>,
     <<PAGES_DIR \o <<SegDecoration>>, DirNode>>}
        \cup DecorationFilled(SegLight)

\* The start: nothing but the root; the sources without dist; the sources
\* and a dist that holds a file and a directory.
ToolsStart ==
    {RootOnly,
     TreeOf(SourceTree),
     TreeOf(SourceTree \cup {<<DistDir, DirNode>>,
                             <<DistDir \o <<FileP>>, FileNode(<<"o">>)>>,
                             <<DistDir \o <<SubS>>, DirNode>>})}

ToolsInit ==
    /\ fs \in ToolsStart
    /\ last = NoCall
    /\ prev = NoCall
    /\ pre = fs
    /\ fm = FmIdle
    /\ ed = EdIdle
    /\ host = HostIdle

\* The caller may send a request: the process runs and is not inside
\* empty_dist.
Ready == host.alive /\ ed.pc \in {"idle", "done"}

\* create_page arguments: complete, or with one of the three missing
ToolCreateArgs ==
    {<<PageA, <<"T">>, <<"x">>>>, <<<<>>, <<"T">>, <<"x">>>>,
     <<PageA, <<>>, <<"x">>>>, <<PageA, <<"T">>, <<>>>>}

\* save_html arguments: complete, for a file of dist or for the name that
\* copy_media gives its directory, or with one or both of the two missing
ToolSaveArgs ==
    {<<FileP, <<"x">>>>, <<SegMedia, <<"x">>>>, <<<<>>, <<"x">>>>, <<FileP, <<>>>>,
     <<<<>>, <<>>>>}

ToolListPages ==
    /\ Ready
    /\ \E listing \in Orderings(Entries(fs, ContentDir(SegDefault))) :
          ListPages(Absent, listing)
    /\ UNCHANGED <<fm, ed, host>>

ToolCreatePage ==
    /\ Ready
    /\ \E a \in ToolCreateArgs : CreatePage(Absent, a[1], a[2], a[3])
    /\ UNCHANGED <<fm, ed, host>>

ToolGetPage ==
    /\ Ready
    /\ \E pageName \in FileNameArgs : GetPage(pageName, Absent)
    /\ UNCHANGED <<fm, ed, host>>

ToolGetMarkdown ==
    /\ Ready
    /\ \E listing \in Orderings(Entries(fs, DecorationDir(fs) \o <<SegMarkdown>>)) :
          GetMarkdown(listing)
    /\ UNCHANGED <<fm, ed, host>>

ToolGetTemplate ==
    /\ Ready
    /\ GetTemplate(Absent)
    /\ UNCHANGED <<fm, ed, host>>

ToolGetComponent ==
    /\ Ready
    /\ \E component \in {<<>>, CompC} : GetComponent(component)
    /\ UNCHANGED <<fm, ed, host>>

ToolSaveHtml ==
    /\ Ready
    /\ \E a \in ToolSaveArgs : SaveHtml(a[1], a[2])
    /\ UNCHANGED <<fm, ed, host>>

ToolCopyMedia ==
    /\ Ready
    /\ CopyMedia(<<<<"a">>>>)
    /\ UNCHANGED <<fm, ed, host>>

ToolXmlSitemap ==
    /\ Ready
    /\ \E baseUrl \in {<<>>, <<"h", ":", "/", "/", "x", "/">>} :
          \E listing \in Orderings(Entries(fs, ContentDir(SegDefault))) :
              XmlSitemap(baseUrl, Absent, listing, "2026-01-01")
    /\ UNCHANGED <<fm, ed, host>>

\* The caller starts the preview server once, on the default port.
ToolRunServer ==
    /\ Ready
    /\ host.ports = {}
    /\ RunServer(0, {})
    /\ UNCHANGED <<fm, ed>>

ToolEmptyDist ==
    /\ host.alive
    /\ EmptyDistStep

ToolsNext ==
    \/ ToolListPages \/ ToolCreatePage \/ ToolGetPage
    \/ ToolGetMarkdown \/ ToolGetTemplate \/ ToolGetComponent
    \/ ToolSaveHtml \/ ToolCopyMedia \/ ToolXmlSitemap
    \/ ToolRunServer \/ ToolEmptyDist

SpecTools == ToolsInit /\ [][ToolsNext]_vars

----------------------------------------------------------------------------
(* The four tools that take a dataSet argument                             *)

DataSetInit ==
    /\ fs \in {RootOnly,
               TreeOf({<<CMS_DIR, DirNode>>, <<PAGES_DIR, DirNode>>, <<ContentRoot, DirNode>>,
                       <<ContentRoot \o <<SegDefault>>, DirNode>>})}
    /\ last = NoCall
    /\ prev = NoCall
    /\ pre = fs
    /\ fm = FmIdle
    /\ ed = EdIdle
    /\ host = HostIdle

DataSetCreatePage ==
    \E dataSet \in DataSetArgs, fileName \in FileNameArgs :
        /\ CreatePage(dataSet, fileName, <<"T">>, <<"x">>)
        /\ UNCHANGED <<fm, ed, host>>

DataSetXmlSitemap ==
    \E dataSet \in DataSetArgs :
        \E listing \in Orderings(Entries(fs, ContentDir(DataSetDefault(dataSet)))) :
            /\ XmlSitemap(<<"h", ":", "/", "/", "x", "/">>, dataSet, listing, "2026-01-01")
            /\ UNCHANGED <<fm, ed, host>>

DataSetNext == DoListPages \/ DataSetCreatePage \/ DoGetPage \/ DataSetXmlSitemap

SpecDataSet == DataSetInit /\ [][DataSetNext]_vars

----------------------------------------------------------------------------
(* The two tools that write a file named by the caller                     *)

UpQ == <<".", ".", "/", "q">>

\* fileName arguments: a plain name, a name in a subdirectory, and a name
\* that steps out of the directory with '..'
WriteNameArgs == {PageA, SubS \o <<"/">> \o PageA, UpQ}

WriteStart ==
    {RootOnly,
     TreeOf({<<CMS_DIR, DirNode>>, <<PAGES_DIR, DirNode>>, <<ContentRoot, DirNode>>,
             <<ContentRoot \o <<SegDefault>>, DirNode>>,
             <<ContentRoot \o <<SegDefault, SubS>>, DirNode>>,
             <<PAGES_DIR \o <<<<"q">>>>, FileNode(<<"o">>)>>,
             <<DistDir, DirNode>>})}

WriteInit ==
    /\ fs \in WriteStart
    /\ last = NoCall
    /\ prev = NoCall
    /\ pre = fs
    /\ fm = FmIdle
    /\ ed = EdIdle
    /\ host = HostIdle

WriteCreatePage ==
    \E dataSet \in {Absent, Given(SetB)}, fileName \in WriteNameArgs :
        /\ CreatePage(dataSet, fileName, <<"T">>, <<"x">>)
        /\ UNCHANGED <<fm, ed, host>>

WriteSaveHtml ==
    \E fileName \in WriteNameArgs :
        /\ SaveHtml(fileName, <<"x">>)
        /\ UNCHANGED <<fm, ed, host>>

WriteNext == WriteCreatePage \/ WriteSaveHtml

SpecWrite == WriteInit /\ [][WriteNext]_vars

----------------------------------------------------------------------------
(* create_page with the file names it accepts, followed by list_pages      *)

\* fileName arguments: a name with and without '.md', and a name in a
\* subdirectory
ListedNameArgs == {PageA, NoteN, SubS \o <<"/">> \o PageA}

ListedCreatePage ==
    \E dataSet \in {Absent, Given(SetB)}, fileName \in ListedNameArgs :
        /\ CreatePage(dataSet, fileName, <<"T">>, <<"x">>)
        /\ UNCHANGED <<fm, ed, host>>

ListedListPages ==
    \E dataSet \in {Absent, Given(SetB)} :
        \E listing \in Orderings(Entries(fs, ContentDir(DataSetOr(dataSet)))) :
            /\ ListPages(dataSet, listing)
            /\ UNCHANGED <<fm, ed, host>>

ListedNext == ListedCreatePage \/ ListedListPages

SpecListed == WriteInit /\ [][ListedNext]_vars

----------------------------------------------------------------------------
(* empty_dist step by step beside the three tools that write into dist.    *)
(* A writer makes mkdir, writeFile and copyFile calls only, so it is one   *)
(* step here; empty_dist is one step per file-system call.                 *)

BesideStart ==
    {TreeOf({<<CMS_DIR, DirNode>>, <<PAGES_DIR, DirNode>>,
             <<ContentRoot, DirNode>>, <<ContentRoot \o <<SegDefault>>, DirNode>>,
             <<ContentRoot \o <<SegDefault, PageA>>, FileNode(Serialize(<<"T">>, <<"x">>))>>,
             <<MediaSourceDir, DirNode>>,
             <<MediaSourceDir \o <<<<"a">>>>, FileNode(<<"m">>)>>} \cup d) :
        d \in {{},
                {<<DistDir, DirNode>>},
                {<<DistDir, DirNode>>, <<DistDir \o <<SubS>>, DirNode>>,
                 <<DistDir \o <<SubS, FileP>>, FileNode(<<"o">>)>>}}}

BesideInit ==
    /\ fs \in BesideStart
    /\ last = NoCall
    /\ prev = NoCall
    /\ pre = fs
    /\ fm = FmIdle
    /\ ed = EdIdle
    /\ host = HostIdle

BesideSaveHtml ==
    \E fileName \in {FileP, SubS \o <<"/">> \o FileP} :
        /\ SaveHtml(fileName, <<"x">>)
        /\ UNCHANGED <<fm, ed, host>>

BesideCopyMedia ==
    /\ CopyMedia(<<<<"a">>>>)
    /\ UNCHANGED <<fm, ed, host>>

BesideXmlSitemap ==
    /\ XmlSitemap(<<"h", ":", "/", "/", "x", "/">>, Absent, <<PageA>>, "2026-01-01")
    /\ UNCHANGED <<fm, ed, host>>

BesideNext == EmptyDistStep \/ BesideSaveHtml \/ BesideCopyMedia \/ BesideXmlSitemap

SpecBeside == BesideInit /\ [][BesideNext]_vars

----------------------------------------------------------------------------
(* empty_dist on a dist that holds a symbolic link                         *)

LinkL == <<"l">>

\* What lies outside dist: src/settings.yml and src/media with the file a.
OutsideTree ==
    {<<CMS_DIR, DirNode>>, <<PAGES_DIR, DirNode>>,
     <<PAGES_DIR \o <<SegSettings>>, FileNode(DecorationKey \o SegLight)>>,
     <<MediaSourceDir, DirNode>>,
     <<MediaSourceDir \o <<<<"a">>>>, FileNode(<<"m">>)>>}

\* dist/l points to the directory src/media, to the file src/settings.yml,
\* or to nothing
LinkTargets == {MediaSourceDir, PAGES_DIR \o <<SegSettings>>, PAGES_DIR \o <<<<"n">>>>}

\* what dist holds beside the link
LinkBeside ==
    {{}, {<<DistDir \o <<<<"a">>>>, FileNode(<<"x">>)>>},
     {<<DistDir \o <<<<"b">>>>, DirNode>>},
     {<<DistDir \o <<<<"b">>>>, DirNode>>, <<DistDir \o <<<<"b">>, <<"a">>>>, FileNode(<<"x">>)>>}}

LinkInit ==
    /\ fs \in {TreeOf(OutsideTree)} \cup
              {TreeOf(OutsideTree \cup {<<DistDir, DirNode>>,
                                        <<DistDir \o <<LinkL>>, LinkNode(t)>>} \cup b) :
                  t \in LinkTargets, b \in LinkBeside}
    /\ last = NoCall
    /\ prev = NoCall
    /\ pre = fs
    /\ fm = FmIdle
    /\ ed = EdIdle
    /\ host = HostIdle

SpecEmptyLinks == LinkInit /\ [][EmptyDistStep]_vars

----------------------------------------------------------------------------
(* C1                                                                      *)

Lines(s) == Split(s, NL)
NoDashLine(s) == \A i \in 1..Len(Lines(s)) : ~StartsWith(Lines(s)[i], Dashes)
SingleLine(s) == ~Includes(s, NL)
NoEdgeSpace(s) == s = <<>> \/ (~IsSpace(s[1]) /\ ~IsSpace(s[Len(s)]))
NotQuoted(s) == ~(Len(s) >= 2 /\ s[1] = QUOTE /\ s[Len(s)] = QUOTE)

RoundTrips ==
    /\ TitleKey \in DOMAIN fm.attributes
    /\ fm.attributes[TitleKey] = fm.title
    /\ fm.content = fm.copy

----------------------------------------------------------------------------
(* C2                                                                      *)

CreatedThenRead ==
    /\ last.op = "get_page"
    /\ prev.op = "create_page"
    /\ "args" \in DOMAIN prev
    /\ last.args.dataSet = prev.args.dataSet
    /\ last.args.pageName = prev.args.fileName

\* C2 as stated: a get_page that immediately follows a successful
\* create_page, with the same dataSet argument and pageName = fileName,
\* returns success: true with attributes.title equal to the created title.
C2_CreateThenGet ==
    CreatedThenRead =>
        /\ "success" \in DOMAIN last.res
        /\ last.res.success
        /\ TitleKey \in DOMAIN last.res.attributes
        /\ last.res.attributes[TitleKey] = prev.args.title

----------------------------------------------------------------------------
(* C5                                                                      *)

\* The dataset directory list_pages is asked about.
C5_Dir(arg) ==
    ContentRoot \o <<IF arg.given /\ arg.val # <<>> THEN arg.val ELSE SegDefault>>

Range(seq) == {seq[i] : i \in 1..Len(seq)}

\* C5: list_pages reports directoryCreated: true exactly when the dataset
\* directory did not exist when the call started; it then creates the
\* directory and returns no pages and directoryExists = true.  When the
\* directory existed, the result has no directoryCreated field,
\* directoryExists = true, the tree is unchanged and pages holds, once
\* each, exactly the entries of the directory whose name ends in '.md'.
C5_ListPages ==
    last.op = "list_pages" =>
        LET dir == C5_Dir(last.args.dataSet)
            res == last.res
        IN  /\ ("directoryCreated" \in DOMAIN res) <=> ~IsDir(pre, dir)
            /\ ~IsDir(pre, dir) =>
                  /\ res.directoryCreated = TRUE
                  /\ res.pages = <<>>
                  /\ res.directoryExists = TRUE
                  /\ IsDir(fs, dir)
                  /\ Entries(fs, dir) = {}
            /\ IsDir(pre, dir) =>
                  /\ res.directoryExists = TRUE
                  /\ fs = pre
                  /\ Range(res.pages) = {e \in Entries(pre, dir) : EndsWith(e, ExtMd)}
                  /\ Len(res.pages) = Cardinality(Range(res.pages))

C5_Witness ==
    /\ last.op = "list_pages"
    /\ "directoryCreated" \in DOMAIN last.res
    /\ ~IsDir(pre, C5_Dir(last.args.dataSet))
    /\ IsDir(fs, C5_Dir(last.args.dataSet))
    /\ prev.op = "list_pages"

----------------------------------------------------------------------------
(* C9                                                                      *)

\* What reading a component file must give: its text, or null when the
\* file is missing or cannot be read.
C9_Expected(path) == IF IsFile(pre, path) THEN Some(pre[path].data) ELSE Null

ComponentAnswered == last.op = "get_component" /\ "componentExists" \in DOMAIN last.res

\* C9: get_component reads template.html, example.md and example.html
\* independently, each field being null exactly when its own file is missing
\* or unreadable; componentExists is true exactly when the component
\* directory exists; without the directory all three fields are null.
C9_Component ==
    ComponentAnswered =>
        LET res == last.res
            dir == res.componentDir
        IN  /\ res.componentExists = IsDir(pre, dir)
            /\ res.template = C9_Expected(dir \o <<TemplateHtml>>)
            /\ res.exampleMd = C9_Expected(dir \o <<ExampleMd>>)
            /\ res.exampleHtml = C9_Expected(dir \o <<ExampleHtml>>)
            /\ ~IsDir(pre, dir) =>
                  /\ res.template = Null /\ res.exampleMd = Null /\ res.exampleHtml = Null
                  /\ res.componentExists = FALSE
            /\ fs = pre

\* the component directory exists, template.html is missing, example.md is
\* unreadable and example.html is read
C9_Witness ==
    /\ ComponentAnswered
    /\ last.res.componentExists = TRUE
    /\ last.res.template = Null
    /\ ~Exists(pre, last.res.componentDir \o <<TemplateHtml>>)
    /\ last.res.exampleMd = Null
    /\ IsDir(pre, last.res.componentDir \o <<ExampleMd>>)
    /\ last.res.exampleHtml = Some(<<"h">>)

----------------------------------------------------------------------------
(* C10                                                                     *)

\* The template file the call reports: templateName inside templatesDir.
C10_Path == last.res.templatesDir \o <<last.res.templateName>>

\* C10 as stated: in every get_template result templateExists is true
\* exactly when template is non-null.
C10_ExistsIffContent ==
    last.op = "get_template" => (last.res.templateExists <=> ~last.res.template.null)

\* C10 amended: templateExists is true exactly when the template path
\* exists; template is the file's text when it can be read and null
\* otherwise, so an absent template gives null and false, a template that
\* exists but cannot be read gives null and true, and a non-null template
\* implies templateExists.
C10_Template ==
    last.op = "get_template" =>
        LET res == last.res
            path == C10_Path
        IN  /\ res.templateExists = Exists(pre, path)
            /\ res.template = IF IsFile(pre, path) THEN Some(pre[path].data) ELSE Null
            /\ ~res.template.null => res.templateExists
            /\ fs = pre

C10_Witness ==
    /\ last.op = "get_template"
    /\ last.res.templateExists = TRUE
    /\ last.res.template = Null
    /\ IsDir(pre, C10_Path)

----------------------------------------------------------------------------
(* C6, C7, C8                                                              *)

SitemapDone == last.op = "xml_sitemap" /\ "success" \in DOMAIN last.res /\ last.res.success

\* The dataset directory xml_sitemap is asked about.
SitemapDir ==
    IF ~last.args.dataSet.given THEN ContentRoot \o <<SegDefault>>
    ELSE IF last.args.dataSet.val = <<>> THEN ContentRoot
    ELSE ContentRoot \o <<last.args.dataSet.val>>

Readable(name) == IsFile(pre, SitemapDir \o <<name>>)
TextOf(name) == pre[SitemapDir \o <<name>>].data

\* The '.md' pages of the dataset whose file can be read, in listing order.
ReadablePages ==
    LET Keep(name) == EndsWith(name, ExtMd) /\ Readable(name)
    IN  SelectSeq(last.args.listing, Keep)

\* Those of them whose relative URL resolves against baseUrl.
ResolvedPages ==
    LET Keep(name) == EndsWith(name, ExtMd) /\ Readable(name)
                        /\ HasScheme(last.args.baseUrl)
    IN  SelectSeq(last.args.listing, Keep)

\* The relative URL C6 states: the alias value the frontmatter parser
\* yields when there is one, else the file name with .md replaced by .html.
C6_Url(name) ==
    LET attrs == ParsePage(TextOf(name)).attributes
    IN  IF AliasKey \in DOMAIN attrs THEN attrs[AliasKey]
        ELSE SubSeq(name, 1, Len(name) - 3) \o ExtHtml

\* C6 as stated: the URL of every sitemap entry is resolved from the alias
\* value of the frontmatter parser, or from the file name.
C6_AliasUrl ==
    SitemapDone =>
        /\ Len(last.res.urls) = Len(ResolvedPages)
        /\ \A i \in 1..Len(last.res.urls) :
              last.res.urls[i].loc
                  = ResolveUrl(C6_Url(ResolvedPages[i]), last.args.baseUrl).href

\* C7: an entry has priority '1.0' exactly when the relative URL derived
\* for its page is 'index.html', and '0.8' otherwise; every entry has
\* changefreq 'weekly'; all entries of a call carry the same lastmod.
C7_Priority ==
    SitemapDone =>
        LET urls == last.res.urls
        IN  /\ Len(urls) = Len(ResolvedPages)
            /\ \A i \in 1..Len(urls) :
                  LET name == ResolvedPages[i]
                  IN  /\ urls[i].priority \in {"1.0", "0.8"}
                      /\ urls[i].priority = "1.0"
                            <=> SitemapUrl(name, TextOf(name)) = IndexHtml
                      /\ urls[i].changefreq = "weekly"
            /\ \A i, j \in 1..Len(urls) : urls[i].lastmod = urls[j].lastmod

\* index.md carries an alias and gets 0.8; a.md is aliased to index.html
\* and gets 1.0
C7_Witness ==
    /\ SitemapDone
    /\ Len(last.res.urls) = 2
    /\ \E i, j \in 1..2 :
          /\ ResolvedPages[i] = IndexMd /\ last.res.urls[i].priority = "0.8"
          /\ ResolvedPages[j] = PageA /\ last.res.urls[j].priority = "1.0"

CountOf(token, text) == Cardinality({i \in 1..Len(text) : text[i] = token})

SitemapWritten ==
    /\ IsDir(fs, DistDir)
    /\ IsFile(fs, DistDir \o <<SitemapXml>>)
    /\ last.res.urlCount = Len(last.res.urls)
    /\ CountOf("<url>", fs[DistDir \o <<SitemapXml>>].data) = Len(last.res.urls)
    /\ \A p \in DOMAIN fs : p \notin {DistDir, DistDir \o <<SitemapXml>>} =>
          p \in DOMAIN pre /\ fs[p] = pre[p]

\* C8 as stated: a successful call has exactly one entry for every '.md'
\* page whose file can be read, writes dist/sitemap.xml and reports
\* urlCount equal to the number of entries and of <url> elements.
C8_ReadablePages ==
    SitemapDone =>
        /\ Len(last.res.urls) = Len(ReadablePages)
        /\ SitemapWritten

\* C8 amended: a successful call has exactly one entry, in listing order,
\* for every '.md' page whose file can be read and whose relative URL can
\* be resolved against baseUrl, and skips every other page; it writes
\* dist/sitemap.xml (creating dist if absent) and reports urlCount equal to
\* the number of entries in urls and of <url> elements written.  The call
\* succeeds whenever the dataset directory can be listed and
\* dist/sitemap.xml can be written, whatever pages are skipped.
C8_Sitemap ==
    /\ SitemapDone =>
          /\ Len(last.res.urls) = Len(ResolvedPages)
          /\ \A i \in 1..Len(last.res.urls) :
                last.res.urls[i].loc =
                    ResolveUrl(SitemapUrl(ResolvedPages[i], TextOf(ResolvedPages[i])),
                               last.args.baseUrl).href
          /\ SitemapWritten
    /\ (/\ last.op = "xml_sitemap"
        /\ last.args.baseUrl # <<>>
        /\ IsDir(pre, SitemapDir)
        /\ ~IsFile(pre, DistDir)
        /\ ~IsDir(pre, DistDir \o <<SitemapXml>>)) => SitemapDone

\* dist is absent, one page is unreadable and is skipped, the other is kept
C8_Witness ==
    /\ SitemapDone
    /\ ~Exists(pre, DistDir)
    /\ IsDir(pre, SitemapDir \o <<IndexMd>>)
    /\ Len(last.res.urls) = 1
    /\ ResolvedPages = <<PageA>>

----------------------------------------------------------------------------
(* C3, C4                                                                  *)

EmptyDistDone == last.op = "empty_dist" /\ ed.pc = "done"

DistEmptied ==
    /\ IsDir(fs, DistDir)
    /\ Below(fs, DistDir) = {}

\* C3: with no other actor, when empty_dist returns, dist exists and has no
\* entries and the result is success: true, whatever files and directories
\* dist held and also when dist did not exist.
C3_Emptied ==
    EmptyDistDone => (DistEmptied /\ last.res.success = TRUE)

\* dist held a file three levels down beside other entries
C3_Witness ==
    /\ EmptyDistDone
    /\ DistEmptied
    /\ \E p \in Below(pre, DistDir) : Len(p) = 4 /\ IsFile(pre, p)
    /\ Cardinality(Below(pre, DistDir)) = MaxDistEntries

NestedDirs(tree) == {p \in Below(tree, DistDir) : IsDir(tree, p)}

\* a file inside a subdirectory of dist was removed by the other actor
NestedFileRaced ==
    /\ ed.ext # {}
    /\ \A p \in ed.ext : Len(p) > Len(DistDir) + 1

\* C4: empty_dist on a dist containing nested directories leaves dist
\* existing and empty, and returns a result, even when another actor removes
\* a nested file between the listing of its directory and its stat or removal.
C4_EmptiedDespiteRace ==
    (EmptyDistDone /\ NestedDirs(pre) # {} /\ NestedFileRaced)
        => (DistEmptied /\ last.res.success = TRUE)

----------------------------------------------------------------------------
(* C11                                                                     *)

\* The page file get_page is asked about.
C11_Path ==
    (IF ~last.args.dataSet.given THEN ContentRoot \o <<SegDefault>>
     ELSE IF last.args.dataSet.val = <<>> THEN ContentRoot
     ELSE ContentRoot \o <<last.args.dataSet.val>>) \o <<last.args.pageName>>

PageUnavailable ==
    /\ last.op = "get_page"
    /\ last.args.pageName # <<>>
    /\ ~IsFile(pre, C11_Path)

\* C11: get_page on an absent or unreadable page file returns a result
\* with success: false whose message carries the I/O error of the failed
\* call, together with pageName, dataSet and filePath; nothing is thrown to
\* the outer handler and the tree is unchanged.
C11_GetPageFailure ==
    PageUnavailable =>
        /\ "thrown" \notin DOMAIN last.res
        /\ last.res.success = FALSE
        /\ last.res.message.cause
              = (IF IsDir(pre, C11_Path) THEN "EISDIR" ELSE "ENOENT")
        /\ last.res.message.pageName = last.args.pageName
        /\ last.res.pageName = last.args.pageName
        /\ "dataSet" \in DOMAIN last.res
        /\ last.res.filePath = C11_Path
        /\ fs = pre

\* the page path holds a directory: it exists and cannot be read
C11_Witness ==
    /\ PageUnavailable
    /\ IsDir(pre, C11_Path)
    /\ last.res.success = FALSE
    /\ last.res.message.cause = "EISDIR"

----------------------------------------------------------------------------
(* C15                                                                     *)

SaveSucceeded ==
    /\ last.op = "save_html"
    /\ "success" \in DOMAIN last.res
    /\ last.res.success

\* dist/<fileName>, for the fileName arguments without '.' or '..'
C15_Path == DistDir \o Split(last.args.fileName, "/")

\* C15: after save_html returns success: true, dist/<fileName> is a file
\* holding exactly the given content, dist and every directory between
\* dist and the file exist, and everything else is as before the call.
C15_Saved ==
    SaveSucceeded =>
        /\ IsFile(fs, C15_Path)
        /\ fs[C15_Path].data = last.args.content
        /\ last.res.filePath = C15_Path
        /\ \A q \in Prefixes(C15_Path) : q # C15_Path => IsDir(fs, q)
        /\ \A q \in DOMAIN pre : q # C15_Path => (q \in DOMAIN fs /\ fs[q] = pre[q])
        /\ \A q \in DOMAIN fs : q \in DOMAIN pre \/ q \in Prefixes(C15_Path)

\* dist was absent and the file lies in a subdirectory
C15_Witness ==
    /\ SaveSucceeded
    /\ ~Exists(pre, DistDir)
    /\ Len(C15_Path) = 3
    /\ IsFile(fs, C15_Path)

----------------------------------------------------------------------------
(* C16                                                                     *)

CopyDone == last.op = "copy_media"
CopySucceeded == CopyDone /\ last.res.success

\* the place under dist/media that mirrors a place under src/media
Mirror(q) == MediaDestDir \o SubSeq(q, Len(MediaSourceDir) + 1, Len(q))

SourceUntouched ==
    /\ \A q \in DOMAIN pre : IsPrefix(MediaSourceDir, q) => (q \in DOMAIN fs /\ fs[q] = pre[q])
    /\ \A q \in DOMAIN fs : IsPrefix(MediaSourceDir, q) => q \in DOMAIN pre

\* C16 as stated: copy_media fails when src/media does not exist; when it
\* returns success: true, every directory under src/media is a directory
\* at the same relative path under dist/media, every file is a file there
\* with the same content, and nothing under src/media has changed.
C16_Mirrored ==
    /\ (CopyDone /\ ~Exists(pre, MediaSourceDir)) => last.res.success = FALSE
    /\ CopySucceeded =>
          /\ \A q \in Below(pre, MediaSourceDir) :
                /\ IsDir(pre, q) => IsDir(fs, Mirror(q))
                /\ IsFile(pre, q) => (IsFile(fs, Mirror(q)) /\ fs[Mirror(q)].data = pre[q].data)
          /\ SourceUntouched

----------------------------------------------------------------------------
(* C14                                                                     *)

\* C14 as stated: the host process keeps running whatever tool is called
\* and whatever request a started preview server handles, including
\* run_server on a port already in use and a request for a path that
\* cannot be streamed.
C14_HostAlive == host.alive

----------------------------------------------------------------------------
(* C20                                                                     *)

\* The extensions the handler's switch names, and .html.
C20_Mapping ==
    (<<".", "j", "s">> :> "text/javascript") @@
    (<<".", "c", "s", "s">> :> "text/css") @@
    (<<".", "j", "s", "o", "n">> :> "application/json") @@
    (<<".", "p", "n", "g">> :> "image/png") @@
    (<<".", "j", "p", "g">> :> "image/jpeg") @@
    (<<".", "j", "p", "e", "g">> :> "image/jpeg") @@
    (<<".", "g", "i", "f">> :> "image/gif") @@
    (<<".", "s", "v", "g">> :> "image/svg+xml") @@
    (<<".", "x", "m", "l">> :> "application/xml") @@
    (ExtHtml :> "text/html")

Served ==
    /\ last.op = "http"
    /\ last.res.status = 200
    /\ IsFile(pre, last.res.filePath)

C20_Ext == ExtName(last.res.filePath[Len(last.res.filePath)])

\* C20 as stated: a served file gets the Content-Type its extension maps
\* to, and application/octet-stream when its extension is not in the
\* mapping.
C20_ContentType ==
    Served =>
        last.res.contentType =
            (IF C20_Ext \in DOMAIN C20_Mapping THEN C20_Mapping[C20_Ext]
             ELSE "application/octet-stream")

----------------------------------------------------------------------------
(* C18                                                                     *)

FirstColon(line) == IndexFrom(line, <<":">>, 1)

\* the trimmed text before the first colon
C18_Key(line) == Trim(SubSeq(line, 1, FirstColon(line) - 1))

\* everything after the first colon, trimmed, then without one pair of
\* surrounding double quotes
C18_Value(line) ==
    LET rest == Trim(SubSeq(line, FirstColon(line) + 1, Len(line)))
    IN  IF Len(rest) >= 2 /\ rest[1] = QUOTE /\ rest[Len(rest)] = QUOTE
        THEN SubSeq(rest, 2, Len(rest) - 1)
        ELSE rest

\* The attributes of a block: one per key of the lines holding a colon,
\* with the value of the last such line.
C18_Attributes(lines) ==
    LET holding == {i \in 1..Len(lines) : FirstColon(lines[i]) # 0}
        keys == {C18_Key(lines[i]) : i \in holding}
    IN  [k \in keys |->
            C18_Value(lines[MaxOf({i \in holding : C18_Key(lines[i]) = k})])]

\* C18: every line of the frontmatter block is split on its first ':'
\* only; the key is the trimmed text before it, the value the whole
\* remainder, trimmed and stripped of one pair of surrounding double quotes;
\* lines without ':' are ignored; a text without a frontmatter block yields
\* no attributes and its raw text as content.
C18_Parser ==
    fm.phase = "parsed" =>
        LET m == FrontmatterMatch(fm.text)
        IN  IF m.matched
            THEN fm.attributes = C18_Attributes(Split(m.block, NL))
            ELSE fm.attributes = NoAttributes /\ fm.content = fm.text

\* a quoted value holding a colon, before a line without a colon
C18_Witness ==
    /\ fm.phase = "parsed"
    /\ fm.text = PageOf(<<":", "\"", ":", "\"", NL, "k">>, <<"x">>)
    /\ fm.attributes = (<<>> :> <<":">>)

----------------------------------------------------------------------------
(* C19                                                                     *)

C19_SettingsPath == PAGES_DIR \o <<SegSettings>>

\* the lines of settings.yml that begin with 'decoration:'
C19_KeyLines ==
    LET lines == Split(pre[C19_SettingsPath].data, NL)
    IN  SelectSeq(lines, LAMBDA line : StartsWith(line, DecorationKey))

\* the text between the first colon of a line and its next colon, trimmed
C19_Segment(line) ==
    LET rest == SubSeq(line, Len(DecorationKey) + 1, Len(line))
        next == IndexFrom(rest, <<":">>, 1)
    IN  Trim(IF next = 0 THEN rest ELSE SubSeq(rest, 1, next - 1))

C19_Name ==
    IF ~IsFile(pre, C19_SettingsPath) THEN SegLight
    ELSE IF C19_KeyLines = <<>> THEN SegLight
    ELSE C19_Segment(C19_KeyLines[1])

\* C19: get_markdown, get_template and get_component resolve the decoration
\* 'light' when settings.yml cannot be read or has no line beginning with
\* 'decoration:', and otherwise the trimmed first colon-separated segment
\* after 'decoration' on the first such line; the three resolve the same
\* name for the same settings.yml.
C19_Decoration ==
    (last.op \in {"get_markdown", "get_template", "get_component"}
        /\ "decoration" \in DOMAIN last.res)
        => last.res.decoration = C19_Name

\* the key is on the second and third lines: the second line decides
C19_Witness ==
    /\ last.op = "get_markdown"
    /\ prev.op = "get_component"
    /\ IsFile(pre, C19_SettingsPath)
    /\ Len(C19_KeyLines) = 2
    /\ last.res.decoration = SegDark
    /\ FileH1 \in DOMAIN last.res.templates

----------------------------------------------------------------------------
(* C12                                                                     *)

\* The required arguments of the tools that have any.
RequiredOf(op) ==
    CASE op = "create_page" -> {"fileName", "title", "copy"}
      [] op = "get_component" -> {"component"}
      [] op = "save_html" -> {"fileName", "content"}
      [] op = "get_page" -> {"pageName"}
      [] op = "xml_sitemap" -> {"baseUrl"}
      [] OTHER -> {}

\* The required arguments that the last call came without.
MissingOf(call) == {name \in RequiredOf(call.op) : call.args[name] = <<>>}

\* C12: when create_page, get_component, save_html, get_page or xml_sitemap
\* is called without one of its required arguments, the caller receives a
\* failure message that names a missing argument, no default stands in for
\* the argument (the call returns no result of its own), and the file tree
\* is what it was before the call.
C12_Validation ==
    (last.op # "none" /\ MissingOf(last) # {})
        => /\ DOMAIN last.res = {"thrown", "message"}
           /\ last.res.thrown
           /\ \E name \in MissingOf(last) : name \in Range(last.res.message)
           /\ fs = pre

\* save_html without content in a workspace without dist: dist is not made
C12_Witness ==
    /\ last.op = "save_html"
    /\ last.args.fileName = FileP
    /\ MissingOf(last) = {"content"}
    /\ "content" \in Range(last.res.message)
    /\ ~Exists(fs, DistDir)
    /\ prev.op = "xml_sitemap"

----------------------------------------------------------------------------
(* C13                                                                     *)

\* The caller is told of a failure: a thrown message or success: false.
Failed(res) == "thrown" \in DOMAIN res \/ ("success" \in DOMAIN res /\ ~res.success)
SaidFalse(res) == "success" \in DOMAIN res /\ ~res.success

\* The last call is answered and had its required arguments.
Answered(op) ==
    /\ last.op = op
    /\ MissingOf(last) = {}
    /\ "pending" \notin DOMAIN last.res

\* get_page on an absent page, copy_media without src/media and run_server
\* without dist return success: false.
C13_Exceptions ==
    /\ (Answered("get_page")
          /\ ~Exists(pre, PathJoin(ContentDir(DataSetDefault(last.args.dataSet)),
                                   last.args.pageName)))
          => SaidFalse(last.res)
    /\ (Answered("copy_media") /\ ~Exists(pre, MediaSourceDir)) => SaidFalse(last.res)
    /\ (Answered("run_server") /\ ~Exists(pre, DistDir)) => SaidFalse(last.res)

\* list_pages, get_markdown, get_template, get_component, save_html,
\* empty_dist, and xml_sitemap without dist, answer a missing directory or
\* file with a result that is no failure and carries the default.
C13_Defaults ==
    /\ (Answered("list_pages") /\ ~Exists(pre, last.res.directory))
          => ~Failed(last.res) /\ last.res.pages = <<>>
    /\ (Answered("get_markdown") /\ ~Exists(pre, last.res.markdownDir))
          => ~Failed(last.res) /\ last.res.templates = NoAttributes
    /\ (Answered("get_template")
          /\ ~Exists(pre, PathJoin(last.res.templatesDir, last.res.templateName)))
          => ~Failed(last.res) /\ last.res.template = Null /\ ~last.res.templateExists
    /\ (Answered("get_component") /\ ~Exists(pre, last.res.componentDir))
          => /\ ~Failed(last.res)
             /\ ~last.res.componentExists
             /\ last.res.template = Null
             /\ last.res.exampleMd = Null
             /\ last.res.exampleHtml = Null
    /\ (Answered("save_html") /\ ~Exists(pre, DistDir))
          => ~Failed(last.res) /\ IsDir(fs, DistDir)
    /\ (Answered("empty_dist") /\ ~Exists(pre, DistDir))
          => ~Failed(last.res) /\ IsDir(fs, DistDir)
    /\ (Answered("xml_sitemap") /\ ~Exists(pre, DistDir)
          /\ IsDir(pre, ContentDir(DataSetDefault(last.args.dataSet))))
          => ~Failed(last.res) /\ IsDir(fs, DistDir)

SitemapWithoutDataSet ==
    /\ Answered("xml_sitemap")
    /\ ~Exists(pre, ContentDir(DataSetDefault(last.args.dataSet)))

\* C13 as the claim has it: xml_sitemap is among the operations that answer
\* a missing directory with a result that is no failure.
C13_AsStated ==
    /\ C13_Exceptions
    /\ C13_Defaults
    /\ SitemapWithoutDataSet => ~Failed(last.res)

\* C13: a missing directory or file makes get_page (absent page),
\* copy_media (absent source), run_server (absent dist) and xml_sitemap
\* (absent dataset directory) return success: false; list_pages,
\* get_markdown, get_template, get_component, save_html, empty_dist, and
\* xml_sitemap without dist, return a result that is no failure and carries
\* the absence as an empty list, null content, exists false, or make the
\* missing directory.
C13_Absence ==
    /\ C13_Exceptions
    /\ C13_Defaults
    /\ SitemapWithoutDataSet => SaidFalse(last.res) /\ fs = pre

\* xml_sitemap in a workspace without src/content/default, after a
\* get_template that answered the missing template with null
C13_Witness ==
    /\ SitemapWithoutDataSet
    /\ SaidFalse(last.res)
    /\ prev.op = "get_template"
    /\ ~Exists(fs, PAGES_DIR)

----------------------------------------------------------------------------
(* C17                                                                     *)

\* Nothing but directories lies at dir or above it: dir exists or can be
\* made.
Free(f, dir) == \A k \in 0..Len(dir) : LET q == SubSeq(dir, 1, k)
                                       IN  ~Exists(f, q) \/ IsDir(f, q)

\* No directory lies where the file is to be written.
FreeFile(f, path) == Free(f, Parent(path)) /\ ~IsDir(f, path)

\* The call found the places it needs free, and the input it reads there:
\* the dataset directory; dist, the directory of the file and the file;
\* src/media, and under dist/media nothing of another kind than under
\* src/media; dist.
Unobstructed ==
    CASE last.op = "list_pages" -> Free(pre, last.res.directory)
      [] last.op = "create_page" ->
            FreeFile(pre, PathJoin(ContentDir(DataSetOr(last.args.dataSet)),
                                   last.args.fileName))
      [] last.op = "save_html" -> FreeFile(pre, PathJoin(DistDir, last.args.fileName))
      [] last.op = "copy_media" ->
            /\ IsDir(pre, MediaSourceDir)
            /\ Free(pre, MediaDestDir)
            /\ \A q \in Below(pre, MediaSourceDir) :
                  Exists(pre, Mirror(q)) => pre[Mirror(q)].kind = pre[q].kind
      [] last.op = "empty_dist" -> Free(pre, DistDir)
      [] OTHER -> FALSE

\* The directory the call needs is there after it.
NeededDir ==
    CASE last.op = "list_pages" -> last.res.directory
      [] last.op = "create_page" -> ContentDir(DataSetOr(last.args.dataSet))
      [] last.op = "copy_media" -> MediaDestDir
      [] OTHER -> DistDir

Succeeded ==
    IF last.op = "list_pages" THEN last.res.directoryExists
    ELSE "success" \in DOMAIN last.res /\ last.res.success

\* A tool that acts in one step is called again with the same arguments.
SameCallAgain ==
    /\ last.op \in {"create_page", "save_html", "copy_media", "list_pages"}
    /\ last'.op = last.op
    /\ last'.args = last.args

\* empty_dist has returned, and the call before it was empty_dist.
EmptiedAgain ==
    /\ last.op = "empty_dist"
    /\ prev.op = "empty_dist"
    /\ ed.pc = "done"

OnDemand ==
    (\E op \in {"create_page", "save_html", "copy_media", "empty_dist", "list_pages"} :
        Answered(op) /\ Unobstructed)
        => Succeeded /\ IsDir(fs, NeededDir)

----------------------------------------------------------------------------
(* C21                                                                     *)

\* the path a request url names under dist
C21_Resolved ==
    IF last.args.url = <<"/">> THEN DistDir \o <<IndexHtml>>
    ELSE PathJoin(DistDir, last.args.url)

C21_Index == C21_Resolved \o <<IndexHtml>>

\* C21 as stated: '/' is answered from dist/index.html; a request whose
\* path is a directory is answered with the index.html inside that
\* directory, and with 404 when there is none; a request for a file that
\* does not exist is answered with 404.
C21_DirectoryIndex ==
    last.op = "http" =>
        /\ last.args.url = <<"/">> => last.res.filePath = DistDir \o <<IndexHtml>>
        /\ IsDir(pre, C21_Resolved) =>
              IF IsFile(pre, C21_Index)
              THEN last.res.status = 200 /\ last.res.body = pre[C21_Index].data
              ELSE last.res.status = 404
        /\ (~IsDir(pre, C21_Resolved) /\ ~Exists(pre, last.res.filePath))
              => last.res.status = 404

----------------------------------------------------------------------------
(* C22                                                                     *)

C22_Port == IF last.args.port = 0 THEN 8080 ELSE last.args.port

\* C22 as stated: with dist present, run_server returns success true, the
\* port of the call (8080 when none is given), url, and rootDir holding the
\* path of dist; with dist absent it returns success false and no server
\* listens or is about to.
C22_Result ==
    last.op = "run_server" =>
        IF Exists(pre, DistDir)
        THEN /\ {"success", "port", "url", "rootDir"} \subseteq DOMAIN last.res
             /\ last.res.success
             /\ last.res.port = C22_Port
             /\ last.res.rootDir = DistDir
        ELSE /\ ~last.res.success
             /\ host = HostIdle

----------------------------------------------------------------------------
(* C23                                                                     *)

\* The entries that lay beside the path from dist down to p: their parent
\* is dist or a directory on the path, and they are not on the path.
SiblingsAlong(p) ==
    {q \in Below(pre, DistDir) : IsPrefix(Parent(q), p) /\ ~IsPrefix(q, p)}

\* C23 as stated: when the stat or the removal of an entry inside a
\* subdirectory of dist fails (the entry has vanished), empty_dist still
\* returns success: true, and the entries beside it, in its directory and
\* in every directory above it up to dist, are removed all the same.
C23_SiblingsProcessed ==
    (EmptyDistDone /\ NestedFileRaced)
        => /\ last.res.success = TRUE
           /\ \A p \in ed.ext : \A q \in SiblingsAlong(p) : ~Exists(fs, q)

----------------------------------------------------------------------------
(* C24                                                                     *)

\* save_html was called with both arguments and has returned its own result
SaveReturned ==
    /\ last.op = "save_html"
    /\ last.args.fileName # <<>>
    /\ last.args.content # <<>>

\* C24 as stated: the filePath of a save_html result is dist joined with
\* fileName, when the call succeeds and when it fails, whether the failing
\* step is the creation of dist, the creation of a subdirectory or the
\* write.
C24_FilePath ==
    SaveReturned =>
        /\ "filePath" \in DOMAIN last.res
        /\ last.res.filePath = PathJoin(DistDir, last.args.fileName)

----------------------------------------------------------------------------
(* C25                                                                     *)

C25_Dir == DecorationDir(pre) \o <<SegMarkdown>>

\* C25 as stated: templates has one key for every entry of the active
\* decoration's markdown directory whose name ends in '.html' and no other
\* key, each key holds the content of its file, and without the directory
\* templates is empty and nothing is reported as an error.
C25_Templates ==
    last.op = "get_markdown" =>
        /\ ~Failed(last.res)
        /\ IF IsDir(pre, C25_Dir)
           THEN /\ DOMAIN last.res.templates =
                      {e \in Entries(pre, C25_Dir) : EndsWith(e, ExtHtml)}
                /\ \A e \in DOMAIN last.res.templates :
                      IsFile(pre, C25_Dir \o <<e>>)
                          => last.res.templates[e] = pre[C25_Dir \o <<e>>].data
           ELSE last.res.templates = NoAttributes

----------------------------------------------------------------------------
(* C26                                                                     *)

\* The call before the last one was a create_page that wrote its page, and
\* the last call has the same dataSet argument.
WrittenThenAsked(op) ==
    /\ last.op = op
    /\ prev.op = "create_page"
    /\ "args" \in DOMAIN prev
    /\ last.args.dataSet = prev.args.dataSet

\* C26 as stated: whatever the dataSet argument (absent, empty, a name), the
\* page a create_page has just written is the page get_page reads, and is
\* among the pages list_pages and xml_sitemap list, when they are called
\* with the same dataSet argument.
C26_SameDataSet ==
    /\ (WrittenThenAsked("get_page") /\ last.args.pageName = prev.args.fileName)
          => /\ "success" \in DOMAIN last.res /\ last.res.success
             /\ last.res.rawContent = Serialize(prev.args.title, prev.args.copy)
    /\ WrittenThenAsked("list_pages")
          => prev.args.fileName \in Range(last.res.pages)
    /\ WrittenThenAsked("xml_sitemap")
          => /\ "success" \in DOMAIN last.res /\ last.res.success
             /\ \E i \in 1..Len(last.res.urls) :
                   last.res.urls[i].loc =
                       ResolveUrl(ReplaceMd(prev.args.fileName), last.args.baseUrl).href

----------------------------------------------------------------------------
(* C27                                                                     *)

\* The files the last call created or changed.
FilesWritten ==
    {q \in DOMAIN fs : IsFile(fs, q) /\ (q \notin DOMAIN pre \/ pre[q] # fs[q])}

\* C27 as stated: whatever the fileName, the files save_html creates or
\* changes lie below dist, and those create_page creates or changes lie
\* below the directory of its dataset, src/content/<dataSet>.
C27_WritesInside ==
    /\ last.op = "save_html"
          => \A q \in FilesWritten : q # DistDir /\ IsPrefix(DistDir, q)
    /\ last.op = "create_page"
          => \A q \in FilesWritten :
                LET dir == ContentDir(DataSetOr(last.args.dataSet))
                IN  q # dir /\ IsPrefix(dir, q)

----------------------------------------------------------------------------
(* C28                                                                     *)

Outside(q) == ~IsPrefix(DistDir, q)

\* C28 as stated: when empty_dist has returned, every file and directory
\* outside dist is as it was before the call, whatever dist held: files,
\* directories or symbolic links.
C28_OutsideUnchanged ==
    EmptyDistDone =>
        /\ \A q \in DOMAIN pre : Outside(q) => (q \in DOMAIN fs /\ fs[q] = pre[q])
        /\ \A q \in DOMAIN fs : Outside(q) => q \in DOMAIN pre

----------------------------------------------------------------------------
(* C29                                                                     *)

\* how often a name occurs in a listing
TimesIn(name, listing) == Cardinality({i \in 1..Len(listing) : listing[i] = name})

\* C29 as stated: the list_pages call that follows a successful create_page,
\* for the same dataSet, has the created fileName in pages exactly once,
\* whatever fileName create_page accepted.
C29_ListedOnce ==
    WrittenThenAsked("list_pages")
        => TimesIn(prev.args.fileName, last.res.pages) = 1

----------------------------------------------------------------------------
(* C30                                                                     *)

\* C30: no step of empty_dist, save_html, copy_media or xml_sitemap, in any
\* interleaving, removes the dist root: when dist is a directory before a
\* step, it is a directory after it.
C30_DistKept == [][IsDir(fs, DistDir) => IsDir(fs', DistDir)]_vars

\* empty_dist has answered success while a writer wrote into dist during
\* its run: dist is there and is not empty.
C30_Witness ==
    /\ last.op = "empty_dist"
    /\ last.res = EdSucceeded
    /\ prev.op \in {"save_html", "copy_media", "xml_sitemap"}
    /\ IsDir(fs, DistDir)
    /\ Below(fs, DistDir) # {}

====
